---- MODULE Spec2Model ----
(***************************************************************************)
(* Model of the debugger-session engine of gdb_service: one GDBSession     *)
(* (main.py) with its NativeGDBController (native_gdb.py), the read loop   *)
(* task, the per-connection websocket handlers, the session registry they  *)
(* resolve the session through, and the environment (the debugger          *)
(* subprocess behind the pseudo-terminal, the clients).  The session's     *)
(* fields hold from the start the values its constructor gives them; the   *)
(* registry records when it is constructed.                                *)
(*                                                                         *)
(* asyncio runs one task at a time and switches tasks only at an await     *)
(* that really suspends.  The variable cur holds the running task: a task  *)
(* keeps it across code that cannot suspend and releases it (Free) at      *)
(* websocket.send / websocket.close / the select wait / the receive wait.  *)
(***************************************************************************)
EXTENDS Integers, Sequences, FiniteSets, TLC

\* ------------------------------------------------------------- bounds ----
MaxTransports == 2      \* websocket connections that ever connect
MaxEvents     == 3      \* lines the debugger emits in a behaviour
MaxCmds       == 3      \* client messages received in a behaviour
MaxChunk      == 2      \* complete lines delivered by one os.read

\* ------------------------------------------------- program constants ----
LogCap    == 50         \* main.py:84   len(self.log_history) > 50
ReplayLen == 10         \* main.py:56   self.log_history[-10:]

Transports == 1 .. MaxTransports
NoWs   == 0             \* self.websocket is None
NoFd   == 0             \* self.master_fd is None
NoProc == 0             \* self.process is None
Free   == 0             \* no task is running (all are suspended)
LoopId == -1            \* the read-loop task (connection handlers are 1..N)
NoneVal == "None"       \* Python None inside a payload / location field
NoLoc  == [none |-> TRUE]                     \* self.location is None
NoEvent == [type |-> "none"]

Get(p, k, d) == IF k \in DOMAIN p THEN p[k] ELSE d     \* dict.get(k, d)

\* ------------------------------------------- debugger output (events) ----
FrameFull == [file |-> "a.c", line |-> "7", func |-> "main"]
FramePart == [func |-> "f"]                   \* no debug info: func only
StackA  == << [level |-> "0", func |-> "main"] >>
LocalsA == << [name |-> "x", value |-> "1", type |-> "int"] >>

EvRunning == [type |-> "notify", message |-> "running",
              payload |-> [thread |-> "all"]]
EvExitedNormally == [type |-> "notify", message |-> "stopped",
              payload |-> [reason |-> "exited-normally"]]
EvExited == [type |-> "notify", message |-> "stopped",
              payload |-> [reason |-> "exited", exitcode |-> "01"]]
EvBreak == [type |-> "notify", message |-> "stopped",
              payload |-> [reason |-> "breakpoint-hit", frame |-> FrameFull]]
EvStep == [type |-> "notify", message |-> "stopped",
              payload |-> [reason |-> "end-stepping-range", frame |-> FramePart]]
EvSignalled == [type |-> "notify", message |-> "stopped",
              payload |-> [reason |-> "exited-signalled"]]
EvStack == [type |-> "result", message |-> "stack", token |-> 101,
              payload |-> [stack |-> StackA]]
EvLocals == [type |-> "result", message |-> "locals", token |-> 102,
              payload |-> [locals |-> LocalsA]]
EvError == [type |-> "result", message |-> "error",
              payload |-> [msg |-> "No symbol table is loaded."]]
EvErrorNamed == [type |-> "result", message |-> "error",
              payload |-> [msg |-> "Duplicate variable", name |-> "var1"]]

EvNotifyError == [type |-> "notify", message |-> "error",
              payload |-> [msg |-> "Cannot access memory at address 0x0"]]
EvVarError == [type |-> "result", message |-> "error", token |-> 301,
              payload |-> [msg |-> "-var-create: unable to create variable object"]]
EvStackError == [type |-> "result", message |-> "error", token |-> 101,
              payload |-> [msg |-> "No stack."]]

\* the lines a debugger emits unless the budget names others
CoreEvents == {EvRunning, EvExitedNormally, EvExited, EvBreak, EvStep,
               EvSignalled, EvStack, EvLocals, EvError, EvErrorNamed}

\* one line of each kind the session tells apart, for behaviours in which
\* two connections share the session
SharedEvents == {EvRunning, EvExited, EvBreak, EvStack, EvLocals, EvError}

\* error reports in their several shapes, and a stop to report them after
ErrorEvents == {EvBreak, EvError, EvNotifyError, EvVarError, EvStackError}

\* the results of two var-create commands: the debugger names the
\* variable objects itself and echoes the token both commands bear
EvVarCreated1 == [type |-> "result", message |-> "done", token |-> 301,
              payload |-> [name |-> "var1", numchild |-> "0",
                           value |-> "1", type |-> "int"]]
EvVarCreated2 == [type |-> "result", message |-> "done", token |-> 301,
              payload |-> [name |-> "var2", numchild |-> "0",
                           value |-> "2", type |-> "int"]]

VarEvents == {EvVarCreated1, EvVarCreated2}

\* native_gdb.py 131-136: results re-tagged by the shape of their payload
\* that bear no token (the key is left out when the token is None)
StackB  == << [level |-> "0", func |-> "g"], [level |-> "1", func |-> "main"] >>
LocalsB == << [name |-> "y", value |-> "2", type |-> "int"] >>
EvStackUntagged == [type |-> "result", message |-> "stack",
              payload |-> [stack |-> StackB]]
EvLocalsUntagged == [type |-> "result", message |-> "locals",
              payload |-> [locals |-> LocalsB]]

UntaggedEvents == {EvStackUntagged, EvLocalsUntagged}

\* ------------------------------------------ debugger output (lines) ----
\* A line is held as the record the machine-interface parser gives for it
\* (type, message, payload, token); text is a tuple of pieces, an escape
\* sequence being one piece.
NoToken   == 0                      \* the line bears no token (None)
NoPayload == [none |-> TRUE]        \* the line carries no results (None)

\* the line from which the parser makes event e
MiRecord(e) ==
    [type    |-> e.type,
     message |-> IF e.type = "result" /\ e.message # "error"
                 THEN "done" ELSE e.message,
     payload |-> e.payload,
     token   |-> Get(e, "token", NoToken)]

LineConsole      == [type |-> "console", message |-> NoneVal, token |-> NoToken,
                     payload |-> <<"x = ", "\\\"", "a", "\\\"", "\\n">>]
LineConsoleEmpty == [type |-> "console", message |-> NoneVal, token |-> NoToken,
                     payload |-> <<>>]
LineLog          == [type |-> "log", message |-> NoneVal, token |-> NoToken,
                     payload |-> <<"No symbol table is loaded.", "\\n">>]
LineOutput       == [type |-> "output", message |-> NoneVal, token |-> NoToken,
                     payload |-> <<"Hello, world">>]
LineDoneAck      == [type |-> "result", message |-> "done", token |-> NoToken,
                     payload |-> NoPayload]
LineRunningAck   == [type |-> "result", message |-> "running", token |-> NoToken,
                     payload |-> NoPayload]
LineGarbled      == [type |-> "garbled"]     \* parse_response raises on it

\* lines of every record type, for behaviours about the parser
ParserLines == {LineConsole, LineConsoleEmpty, LineLog, LineOutput,
                LineDoneAck, LineRunningAck, LineGarbled}

\* native_gdb.py 119: the two escapes the parser undoes in console text
Unescape(text) ==
    [i \in 1 .. Len(text) |->
        IF text[i] = "\\\"" THEN "\""
        ELSE IF text[i] = "\\n" THEN "\n" ELSE text[i]]

\* native_gdb.py 109-144: the event made from a line, NoEvent for None
ParseLine(r) ==
    IF r = LineGarbled THEN NoEvent
    ELSE IF r.type = "console"
    THEN IF r.payload # <<>>
         THEN [type |-> "console", payload |-> Unescape(r.payload)]
         ELSE NoEvent
    ELSE IF r.type = "notify"
    THEN [type |-> "notify", message |-> r.message, payload |-> r.payload]
    ELSE IF r.type = "result"
    THEN LET msg == IF r.payload # NoPayload /\ "stack" \in DOMAIN r.payload
                    THEN "stack"
                    ELSE IF r.payload # NoPayload
                            /\ "locals" \in DOMAIN r.payload
                         THEN "locals" ELSE r.message
         IN  IF r.token # NoToken
             THEN [type |-> "result", message |-> msg,
                   payload |-> r.payload, token |-> r.token]
             ELSE [type |-> "result", message |-> msg, payload |-> r.payload]
    ELSE IF r.type = "output" THEN NoEvent
    ELSE r

\* the events the parser makes from those lines
ParserEvents == {ParseLine(l) : l \in ParserLines} \ {NoEvent}

Events == CoreEvents \cup ErrorEvents \cup VarEvents \cup UntaggedEvents
              \cup ParserEvents

\* ----------------------------------------------------- client input ----
Actions == {"init", "stop", "run", "get_context"}
Executables == {"/bin/true", "/nonexistent"}
Exists(exe) == exe = "/bin/true"              \* os.path.exists(executable)

NoArgs == [none |-> TRUE]       \* args with none of the keys an action reads
DefaultCount == 256             \* main.py:252  args.get('count', 256)

\* main.py 297-299: a client message as json.loads and the two get() calls
\* yield it
Msg(a, x) == [action |-> a, args |-> x]

\* the messages a client sends unless the budget names others
CoreMessages ==
    {Msg("init", [executable |-> x]) : x \in Executables}
    \cup {Msg(a, NoArgs) : a \in Actions \ {"init"}}

\* one message of every kind handle_command tells apart, with and without
\* the arguments it reads, and one action it does not know
WideMessages ==
    { Msg("init", [executable |-> "/bin/true"]),
      Msg("get_context", NoArgs),
      Msg("run", NoArgs),
      Msg("run", [stop_at_entry |-> TRUE]),
      Msg("run", [stop_at_entry |-> FALSE]),
      Msg("next", NoArgs), Msg("step", NoArgs), Msg("continue", NoArgs),
      Msg("break", [location |-> "main"]),
      Msg("break", NoArgs),
      Msg("remove_breakpoint", [id |-> "1"]),
      Msg("var_create", [expression |-> "x"]),
      Msg("var_list_children", [name |-> "var1"]),
      Msg("read_memory", [address |-> "0x10", count |-> 16]),
      Msg("read_memory", [address |-> "0x10"]),
      Msg("-gdb-version", NoArgs) }

\* a start and two commands that differ, for a client that sends ahead
PipelineMessages ==
    { Msg("init", [executable |-> "/bin/true"]),
      Msg("run", NoArgs), Msg("continue", NoArgs) }

\* a start and two variable objects to create
VarMessages ==
    { Msg("init", [executable |-> "/bin/true"]),
      Msg("var_create", [expression |-> "x"]),
      Msg("var_create", [expression |-> "y"]) }

\* tests/test_client.py 13-23: start, breakpoint at main, run
BreakRunMessages ==
    { Msg("init", [executable |-> "/bin/true"]),
      Msg("break", [location |-> "main"]),
      Msg("run", NoArgs) }

\* a start and a stop, for a stop that arrives while lines are buffered
StartStopMessages ==
    { Msg("init", [executable |-> "/bin/true"]), Msg("stop", NoArgs) }

\* a start alone, for behaviours about the lines read
StartMessages == { Msg("init", [executable |-> "/bin/true"]) }

\* A behaviour is explored under one of these budgets (connections that
\* connect, commands received, lines emitted): many of one kind with few
\* of the others, or two connections sharing a short run.  A budget may
\* also name the lines the debugger emits (evs), the messages the clients
\* send (msgs), how many messages a client sends ahead of their handling
\* (ahead) and how often the debugger exits on its own (exit).
Budgets == { [tr |-> 1, cmd |-> 1, ev |-> MaxEvents],
             [tr |-> 1, cmd |-> MaxCmds, ev |-> 1],
             [tr |-> MaxTransports, cmd |-> 1, ev |-> 1],
             [tr |-> 2, cmd |-> 1, ev |-> 2, evs |-> SharedEvents],
             [tr |-> 1, cmd |-> 1, ev |-> 2, evs |-> ErrorEvents],
             [tr |-> 1, cmd |-> 2, ev |-> 1, msgs |-> WideMessages],
             [tr |-> 1, cmd |-> 4, ev |-> 1, ahead |-> 2,
              msgs |-> PipelineMessages, evs |-> {EvRunning, EvBreak}],
             [tr |-> 1, cmd |-> 2, ev |-> 1, exit |-> 1],
             [tr |-> 1, cmd |-> 3, ev |-> 2, msgs |-> VarMessages,
              evs |-> VarEvents],
             [tr |-> 1, cmd |-> 3, ev |-> 1, msgs |-> BreakRunMessages,
              evs |-> {EvBreak}],
             [tr |-> 1, cmd |-> 1, ev |-> 2, evs |-> UntaggedEvents],
             [tr |-> 1, cmd |-> 2, ev |-> 2, msgs |-> StartStopMessages,
              evs |-> {EvRunning, EvBreak}],
             [tr |-> 1, cmd |-> 1, ev |-> 2, msgs |-> StartMessages,
              evs |-> {EvBreak}, lines |-> ParserLines] }

VARIABLES
    status, location, stack, variables,   \* GDBSession internal state
    websocket,                            \* GDBSession.websocket
    log_history,                          \* GDBSession.log_history
    process, running, master_fd,          \* NativeGDBController fields
    fdstate,                              \* descriptors ever allocated
    procs,                                \* debugger processes still alive
    lpc, buffer,                          \* read loop: position, line buffer
    hpc, hev, hidx,                       \* on_gdb_event: position, event
    hprev,                                \* the event handled before hev
    cpc, cact, cexe, replay,              \* per-connection handler
    inbox,                                \* frames received, not yet handled
    csent,                                \* messages each client has sent
    open,                                 \* transport connected?
    sent,                                 \* frames accepted by a transport
    wlog,                                 \* every wrapper.write call
    cur,                                  \* running task
    budget,                               \* events / commands still to come
    clock,                                \* log timestamps issued
    sessions,                             \* SessionManager.sessions
    created                               \* GDBSession objects constructed

session == <<status, location, stack, variables>>
wrapper == <<process, running, master_fd, fdstate, procs>>
looper  == <<lpc, buffer, hpc, hev, hidx, hprev>>
conns   == <<cpc, cact, cexe, replay, inbox, csent>>
registry == <<sessions, created>>
vars == <<status, location, stack, variables, websocket, log_history,
          process, running, master_fd, fdstate, procs, lpc, buffer,
          hpc, hev, hidx, hprev, cpc, cact, cexe, replay, inbox, csent, open,
          sent, wlog, cur, budget, clock, sessions, created>>

\* ------------------------------------------------------------ helpers ----
\* to_dict built before the stack is replaced
ToDictStale(st, loc, stk, vs) ==
    [type |-> "state_update",
     payload |-> [status |-> st, location |-> loc,
                  stack |-> stack, variables |-> vs]]

\* to_dict leaving the variables out
ToDictNoVars(st, loc, stk, vs) ==
    [type |-> "state_update",
     payload |-> [status |-> st, location |-> loc,
                  stack |-> stk, variables |-> <<>>]]

\* to_dict that always reports an empty stack
ToDictEmptyStack(st, loc, stk, vs) ==
    [type |-> "state_update",
     payload |-> [status |-> st, location |-> loc,
                  stack |-> <<>>, variables |-> vs]]

\* GDBSession.to_dict of the given field values
ToDict(st, loc, stk, vs) ==
    [type |-> "state_update",
     payload |-> [status |-> st, location |-> loc,
                  stack |-> stk, variables |-> vs]]

\* send_json that keeps the reference when the send raises
SendJsonKeepsRef(ws, snt, data, via) ==
    IF ws = NoWs
    THEN [ws |-> ws, sent |-> snt, susp |-> FALSE]
    ELSE IF open[ws]
         THEN [ws |-> ws,
               sent |-> [snt EXCEPT ![ws] =
                            Append(@, [msg |-> data, via |-> via])],
               susp |-> TRUE]
         ELSE [ws |-> ws, sent |-> snt, susp |-> TRUE]

\* GDBSession.send_json: the attached transport accepts the frame, or the
\* send raises and the reference is cleared; with no transport nothing
\* happens and the caller is not suspended.  via tags the call site.
SendJson(ws, snt, data, via) ==
    IF ws = NoWs
    THEN [ws |-> ws, sent |-> snt, susp |-> FALSE]
    ELSE IF open[ws]
         THEN [ws |-> ws,
               sent |-> [snt EXCEPT ![ws] =
                            Append(@, [msg |-> data, via |-> via])],
               susp |-> TRUE]
         ELSE [ws |-> NoWs, sent |-> snt, susp |-> TRUE]

LogMsg(level, text, ts) ==
    [type |-> "log_event",
     payload |-> [level |-> level, text |-> text, timestamp |-> ts]]

\* pop() in place of pop(0): the newest entry is the one dropped
LogAppendDropNewest(hist, msg) ==
    LET h == Append(hist, msg)
    IN  IF Len(h) > LogCap THEN SubSeq(h, 1, LogCap) ELSE h

\* GDBSession.log, lines 83-84: append, then drop the oldest beyond LogCap
LogAppend(hist, msg) ==
    LET h == Append(hist, msg)
    IN  IF Len(h) > LogCap THEN Tail(h) ELSE h

\* self.log_history[-10:]
ReplaySlice(hist) ==
    IF Len(hist) <= ReplayLen THEN hist
    ELSE SubSeq(hist, Len(hist) - ReplayLen + 1, Len(hist))

\* only the normal exit recognised
ExitReasonsNormalOnly == {"exited-normally"}

\* reason in ['exited-normally', 'exited']
ExitReasons == {"exited-normally", "exited"}

\* the stop location never taken from the frame
PausedLocationKeepsOld(payload, old) == old

\* lines 122-128: location after a non-exit stop
PausedLocation(payload, old) ==
    IF "frame" \in DOMAIN payload
    THEN [file |-> Get(payload.frame, "file", NoneVal),
          line |-> Get(payload.frame, "line", NoneVal),
          func |-> Get(payload.frame, "func", NoneVal)]
    ELSE old

\* lines 132-134: text of the pause log entry
PausedText(reason, loc) ==
    IF loc # NoLoc
    THEN <<"[Paused] ", reason, " at ", loc.file, ":", loc.line>>
    ELSE <<"[Paused] ", reason>>

CmdFrames == "101-stack-list-frames"
CmdLocals == "102-stack-list-locals --simple-values"

\* write without the "if self.master_fd" guard: os.write(None, ...) raises
WriteOutcomesUnguarded(fd, fds) ==
    IF fd = NoFd THEN {"raise"}
    ELSE IF fds[fd] = "live" THEN {"ok"}
    ELSE IF fds[fd] \in {"nogdb", "eof"} THEN {"lost"}
    ELSE {"raise", "stray"}

\* NativeGDBController.write: outcomes of one call.  A descriptor that was
\* closed behind the controller's back makes os.write fail, or (the number
\* having been reused) land on an unrelated descriptor; what is written
\* to a terminal no debugger reads from is lost.
WriteOutcomes(fd, fds) ==
    IF fd = NoFd THEN {"noop"}
    ELSE IF fds[fd] = "live" THEN {"ok"}
    ELSE IF fds[fd] \in {"nogdb", "eof"} THEN {"lost"}
    ELSE {"raise", "stray"}

\* one wrapper.write call: the task that made it, the number of events
\* dispatched by then, the command and the outcome
WriteRec(by, ev, cmd, res) == [by |-> by, ev |-> ev, cmd |-> cmd, res |-> res]

\* main.py 285-288: the identifier the connections of this model name
SessionId == "default"

\* main.py 266: the registry is empty when the service starts
NoSessions == [i \in {} |-> 0]

\* get_or_create that builds a session for every connection
GetOrCreateAlways(reg, n, id) ==
    [reg |-> [i \in DOMAIN reg \cup {id} |->
                IF i = id THEN n + 1 ELSE reg[i]],
     created |-> n + 1]

\* main.py 268-272: SessionManager.get_or_create.  reg is the registry
\* (identifier -> number of the session object), n the number of session
\* objects constructed so far; constructing one (main.py 13-28) makes its
\* channel and creates its read-loop task.  Nothing between the lookup
\* and the insertion suspends.
GetOrCreate(reg, n, id) ==
    IF id \in DOMAIN reg
    THEN [reg |-> reg, created |-> n]
    ELSE [reg |-> [i \in DOMAIN reg \cup {id} |->
                     IF i = id THEN n + 1 ELSE reg[i]],
          created |-> n + 1]

Init ==
    /\ status = "Ready" /\ location = NoLoc
    /\ stack = <<>> /\ variables = <<>>
    /\ websocket = NoWs /\ log_history = <<>>
    /\ process = NoProc /\ running = TRUE /\ master_fd = NoFd
    /\ fdstate = <<>> /\ procs = {}
    /\ lpc = "select" /\ buffer = <<>>
    /\ hpc = "idle" /\ hev = NoEvent /\ hidx = 0 /\ hprev = NoEvent
    /\ cpc = [t \in Transports |-> "new"]
    /\ cact = [t \in Transports |-> "none"]
    /\ cexe = [t \in Transports |-> "none"]
    /\ replay = [t \in Transports |-> <<>>]
    /\ inbox = [t \in Transports |-> <<>>]
    /\ csent = [t \in Transports |-> <<>>]
    /\ open = [t \in Transports |-> FALSE]
    /\ sent = [t \in Transports |-> <<>>]
    /\ wlog = <<>>
    /\ cur = Free
    /\ budget \in Budgets /\ clock = 0
    /\ sessions = NoSessions /\ created = 0

\* ---------------------------------------------------------- read loop ----
ChunksOf(E) == UNION {[1 .. n -> E] : n \in 1 .. MaxChunk}
Lines == {MiRecord(e) : e \in Get(budget, "evs", CoreEvents)}
            \cup Get(budget, "lines", {})
Chunks == ChunksOf(Lines)

\* native_gdb.py 79-88: the select wait returns readable, os.read appends
\* a chunk of complete lines to the buffer
LoopRead ==
    /\ lpc = "select" /\ cur = Free
    /\ running /\ master_fd # NoFd /\ fdstate[master_fd] = "live"
    /\ \E c \in Chunks :
          /\ Len(c) <= budget.ev
          /\ buffer' = buffer \o c
          /\ budget' = [budget EXCEPT !.ev = @ - Len(c)]
    /\ lpc' = "dispatch" /\ cur' = LoopId
    /\ UNCHANGED <<session, websocket, log_history, wrapper, hpc, hev, hprev, hidx,
                   conns, open, sent, wlog, clock>>
    /\ UNCHANGED registry

\* native_gdb.py 73: while self.running is false on wake-up
LoopExit ==
    /\ lpc = "select" /\ cur = Free /\ ~running
    /\ lpc' = "done"
    /\ UNCHANGED <<session, websocket, log_history, wrapper, buffer, hpc,
                   hev, hprev, hidx, conns, open, sent, wlog, cur, budget, clock>>
    /\ UNCHANGED registry

\* native_gdb.py 79: select on a descriptor that start() closed (line 40)
\* raises outside the try block and ends the task; when the number has
\* been reused the wait simply goes on (no step)
LoopSelectFail ==
    /\ lpc = "select" /\ cur = Free /\ running
    /\ master_fd # NoFd /\ fdstate[master_fd] = "closed"
    /\ lpc' = "done"
    /\ UNCHANGED <<session, websocket, log_history, wrapper, buffer, hpc,
                   hev, hprev, hidx, conns, open, sent, wlog, cur, budget, clock>>
    /\ UNCHANGED registry

\* the debugger process behind descriptor f exits on its own; the
\* terminal's other end is closed with it
ProcExit ==
    /\ cur = Free /\ Get(budget, "exit", 0) > 0
    /\ \E f \in 1 .. Len(fdstate) :
          /\ fdstate[f] = "live"
          /\ fdstate' = [fdstate EXCEPT ![f] = "eof"]
          /\ procs' = procs \ {f}
    /\ budget' = [budget EXCEPT !.exit = @ - 1]
    /\ UNCHANGED <<session, websocket, log_history, process, running,
                   master_fd, looper, conns, open, sent, wlog, cur, clock>>
    /\ UNCHANGED registry

\* native_gdb.py 83-85 and 99-101: os.read returns no bytes or raises
\* OSError; the loop breaks
LoopEOF ==
    /\ lpc = "select" /\ cur = Free
    /\ running /\ master_fd # NoFd /\ fdstate[master_fd] = "eof"
    /\ lpc' = "done"
    /\ UNCHANGED <<session, websocket, log_history, wrapper, buffer, hpc,
                   hev, hprev, hidx, conns, open, sent, wlog, cur, budget, clock>>
    /\ UNCHANGED registry

\* native_gdb.py 90: no complete line left, back to the select wait
LoopDrained ==
    /\ lpc = "dispatch" /\ hpc = "idle" /\ cur \in {Free, LoopId}
    /\ buffer = <<>>
    /\ lpc' = "select" /\ cur' = Free
    /\ UNCHANGED <<session, websocket, log_history, wrapper, buffer, hpc,
                   hev, hprev, hidx, conns, open, sent, wlog, budget, clock>>
    /\ UNCHANGED registry

\* native_gdb.py 91-96: the next buffered line yields no event; the
\* loop goes on to the line after it
LoopSkip ==
    /\ lpc = "dispatch" /\ hpc = "idle" /\ cur \in {Free, LoopId}
    /\ buffer # <<>> /\ ParseLine(Head(buffer)) = NoEvent
    /\ buffer' = Tail(buffer)
    /\ cur' = LoopId
    /\ UNCHANGED <<session, websocket, log_history, wrapper, lpc, hpc,
                   hev, hprev, hidx, conns, open, sent, wlog, budget, clock>>
    /\ UNCHANGED registry

\* native_gdb.py 102-103: an exception other than OSError that left the
\* handler is logged; the inner loop over the buffered lines is left and
\* the task goes back to the select wait
LoopCaught ==
    /\ lpc = "caught" /\ cur \in {Free, LoopId}
    /\ lpc' = "select" /\ cur' = Free
    /\ UNCHANGED <<session, websocket, log_history, wrapper, buffer, hpc,
                   hev, hprev, hidx, conns, open, sent, wlog, budget, clock>>
    /\ UNCHANGED registry

\* common part of entering on_gdb_event with the next buffered line
Enter(e) ==
    /\ lpc = "dispatch" /\ hpc = "idle" /\ cur \in {Free, LoopId}
    /\ buffer # <<>> /\ e = ParseLine(Head(buffer))
    /\ buffer' = Tail(buffer)
    /\ hev' = e /\ hidx' = hidx + 1 /\ hprev' = hev

\* leaving a handler segment: to position p, suspended or not
Leave(p, susp) ==
    /\ hpc' = p
    /\ cur' = IF susp THEN Free ELSE LoopId

\* main.py 101-106
OnRunning ==
    \E e \in Events :
      /\ Enter(e)
      /\ e.type = "notify" /\ e.message = "running"
      /\ status' = "Running" /\ location' = NoLoc
      /\ stack' = <<>> /\ variables' = <<>>
      /\ LET r == SendJson(websocket, sent,
                           ToDict("Running", NoLoc, <<>>, <<>>), "live")
         IN  /\ websocket' = r.ws /\ sent' = r.sent
             /\ Leave("log", r.susp)
      /\ UNCHANGED <<log_history, wrapper, lpc, conns, open, wlog,
                     budget, clock>>
      /\ UNCHANGED registry

\* main.py 109-117
OnExited ==
    \E e \in Events :
      /\ Enter(e)
      /\ e.type = "notify" /\ e.message = "stopped"
      /\ Get(e.payload, "reason", NoneVal) \in ExitReasons
      /\ status' = "Exited" /\ location' = NoLoc
      /\ stack' = <<>> /\ variables' = <<>>
      /\ LET r == SendJson(websocket, sent,
                           ToDict("Exited", NoLoc, <<>>, <<>>), "live")
         IN  /\ websocket' = r.ws /\ sent' = r.sent
             /\ Leave("log", r.susp)
      /\ UNCHANGED <<log_history, wrapper, lpc, conns, open, wlog,
                     budget, clock>>
      /\ UNCHANGED registry

\* main.py 119-130
OnPaused ==
    \E e \in Events :
      /\ Enter(e)
      /\ e.type = "notify" /\ e.message = "stopped"
      /\ Get(e.payload, "reason", NoneVal) \notin ExitReasons
      /\ status' = "Paused"
      /\ location' = PausedLocation(e.payload, location)
      /\ UNCHANGED <<stack, variables>>
      /\ LET r == SendJson(websocket, sent,
                           ToDict("Paused", location', stack, variables),
                           "live")
         IN  /\ websocket' = r.ws /\ sent' = r.sent
             /\ Leave("log", r.susp)
      /\ UNCHANGED <<log_history, wrapper, lpc, conns, open, wlog,
                     budget, clock>>
      /\ UNCHANGED registry

\* main.py 107 / 118 / 132-135: the info log entry of a notification
NotifyText(e, loc) ==
    IF e.message = "running" THEN <<"[Running]">>
    ELSE IF Get(e.payload, "reason", NoneVal) \in ExitReasons
         THEN <<"[Exited] Reason: ", e.payload.reason>>
         ELSE PausedText(Get(e.payload, "reason", NoneVal), loc)

IsPause(e) ==
    /\ e.type = "notify" /\ e.message = "stopped"
    /\ Get(e.payload, "reason", NoneVal) \notin ExitReasons

\* main.py 71-85 called from 107 / 118 / 135
HLog ==
    /\ hpc = "log" /\ cur \in {Free, LoopId}
    /\ LET m == LogMsg("info", NotifyText(hev, location), clock + 1)
           r == SendJson(websocket, sent, m, "live")
       IN  /\ log_history' = LogAppend(log_history, m)
           /\ websocket' = r.ws /\ sent' = r.sent
           /\ Leave(IF IsPause(hev) THEN "fetch" ELSE "idle", r.susp)
    /\ clock' = clock + 1
    /\ UNCHANGED <<session, wrapper, lpc, buffer, hev, hprev, hidx, conns, open,
                   wlog, budget>>
    /\ UNCHANGED registry

\* two consecutive wrapper.write calls by task by; the second is not made
\* when the first raises.  Yields the new write log and whether it raised.
TwoWrites(by, ev, c1, c2) ==
    { [wlog |-> <<WriteRec(by, ev, c1, r1)>>, raised |-> TRUE] :
          r1 \in WriteOutcomes(master_fd, fdstate) \cap {"raise"} }
    \cup
    { [wlog |-> <<WriteRec(by, ev, c1, x[1]), WriteRec(by, ev, c2, x[2])>>,
       raised |-> x[2] = "raise"] :
          x \in (WriteOutcomes(master_fd, fdstate) \ {"raise"})
                \X WriteOutcomes(master_fd, fdstate) }

\* main.py 138-139; an OSError from os.write ends the read loop
\* (native_gdb.py 99-101)
HFetch ==
    /\ hpc = "fetch" /\ cur \in {Free, LoopId}
    /\ \E w \in TwoWrites(LoopId, hidx, CmdFrames, CmdLocals) :
          /\ wlog' = wlog \o w.wlog
          /\ hpc' = "idle"
          /\ IF w.raised
             THEN lpc' = "done" /\ cur' = Free
             ELSE lpc' = lpc /\ cur' = LoopId
    /\ UNCHANGED <<session, websocket, log_history, wrapper, buffer, hev, hprev,
                   hidx, conns, open, sent, budget, clock>>
    /\ UNCHANGED registry

\* main.py 145-147
OnStackResult ==
    \E e \in Events :
      /\ Enter(e)
      /\ e.type = "result" /\ Get(e, "token", 0) = 101
      /\ stack' = Get(e.payload, "stack", <<>>)
      /\ UNCHANGED <<status, location, variables>>
      /\ LET r == SendJson(websocket, sent,
                           ToDict(status, location, stack', variables),
                           "live")
         IN  /\ websocket' = r.ws /\ sent' = r.sent
             /\ Leave("errchk", r.susp)
      /\ UNCHANGED <<log_history, wrapper, lpc, conns, open, wlog,
                     budget, clock>>
      /\ UNCHANGED registry

\* main.py 149-151
OnLocalsResult ==
    \E e \in Events :
      /\ Enter(e)
      /\ e.type = "result" /\ Get(e, "token", 0) = 102
      /\ variables' = Get(e.payload, "locals", <<>>)
      /\ UNCHANGED <<status, location, stack>>
      /\ LET r == SendJson(websocket, sent,
                           ToDict(status, location, stack, variables'),
                           "live")
         IN  /\ websocket' = r.ws /\ sent' = r.sent
             /\ Leave("errchk", r.susp)
      /\ UNCHANGED <<log_history, wrapper, lpc, conns, open, wlog,
                     budget, clock>>
      /\ UNCHANGED registry

\* a or b
Or(a, b) == IF a \notin {NoneVal, ""} THEN a ELSE b

RECURSIVE JoinContents(_)
JoinContents(mem) ==
    IF mem = <<>> THEN ""
    ELSE Get(Head(mem), "contents", "") \o JoinContents(Tail(mem))

\* main.py 153-199: the message a result with one of the other reserved
\* tokens is answered with
ReplyOf(e) ==
    LET p == e.payload
    IN  CASE e.token = 201 ->
               [type |-> "breakpoint_created",
                payload |-> [id |-> Get(p.bkpt, "number", NoneVal),
                             file |-> Or(Get(p.bkpt, "fullname", NoneVal),
                                         Get(p.bkpt, "file", NoneVal)),
                             line |-> Get(p.bkpt, "line", NoneVal)]]
          [] e.token = 301 ->
               [type |-> "var_created",
                payload |-> [name |-> Get(p, "name", NoneVal),
                             numchild |-> Get(p, "numchild", NoneVal),
                             value |-> Get(p, "value", NoneVal),
                             type |-> Get(p, "type", NoneVal)]]
          [] e.token = 302 ->
               [type |-> "var_children",
                payload |-> [children |-> Get(p, "children", <<>>)]]
          [] e.token = 401 ->
               LET mem == Get(p, "memory", <<>>)
               IN  [type |-> "memory_read",
                    payload |->
                       [address |-> IF mem # <<>>
                                    THEN Get(mem[1], "begin", "0x0")
                                    ELSE "0x0",
                        contents |-> JoinContents(mem)]]

\* the var-create branch missing
HasReplyNoVarCreate(e) ==
    \/ Get(e, "token", 0) \in {302, 401}
    \/ Get(e, "token", 0) = 201 /\ "bkpt" \in DOMAIN e.payload

\* main.py 153-155, 166, 177, 185: does the result get such a message
HasReply(e) ==
    \/ Get(e, "token", 0) \in {301, 302, 401}
    \/ Get(e, "token", 0) = 201 /\ "bkpt" \in DOMAIN e.payload

\* main.py 153-199
OnReplyResult ==
    \E e \in Events :
      /\ Enter(e)
      /\ e.type = "result" /\ HasReply(e)
      /\ LET r == SendJson(websocket, sent, ReplyOf(e), "live")
         IN  /\ websocket' = r.ws /\ sent' = r.sent
             /\ Leave("errchk", r.susp)
      /\ UNCHANGED <<session, log_history, wrapper, lpc, conns, open, wlog,
                     budget, clock>>
      /\ UNCHANGED registry

\* main.py 95-97: console text is passed on as it is
OnConsole ==
    \E e \in Events :
      /\ Enter(e)
      /\ e.type = "console"
      /\ LET r == SendJson(websocket, sent, e, "live")
         IN  /\ websocket' = r.ws /\ sent' = r.sent
             /\ Leave("idle", r.susp)
      /\ UNCHANGED <<session, log_history, wrapper, lpc, conns, open, wlog,
                     budget, clock>>
      /\ UNCHANGED registry

\* main.py 95-142: an event that is neither console text, a notification
\* nor a result matches no branch
OnOtherType ==
    \E e \in Events :
      /\ Enter(e)
      /\ e.type \notin {"console", "notify", "result"}
      /\ Leave("idle", FALSE)
      /\ UNCHANGED <<session, websocket, log_history, wrapper, lpc, conns,
                     open, sent, wlog, budget, clock>>
      /\ UNCHANGED registry

\* main.py 100-109: a notification that is neither "running" nor
\* "stopped" matches no branch
OnOtherNotify ==
    \E e \in Events :
      /\ Enter(e)
      /\ e.type = "notify" /\ e.message \notin {"running", "stopped"}
      /\ Leave("idle", FALSE)
      /\ UNCHANGED <<session, websocket, log_history, wrapper, lpc, conns,
                     open, sent, wlog, budget, clock>>
      /\ UNCHANGED registry

\* main.py 142-144: a result bearing no token the session knows
OnOtherResult ==
    \E e \in Events :
      /\ Enter(e)
      /\ e.type = "result" /\ Get(e, "token", 0) \notin {101, 102}
      /\ ~HasReply(e)
      /\ Leave("errchk", FALSE)
      /\ UNCHANGED <<session, websocket, log_history, wrapper, lpc, conns,
                     open, sent, wlog, budget, clock>>
      /\ UNCHANGED registry

\* main.py 202: an error message field and no success shape
IsPlainError(payload) ==
    /\ "msg" \in DOMAIN payload
    /\ "bkpt" \notin DOMAIN payload
    /\ "name" \notin DOMAIN payload
    /\ "children" \notin DOMAIN payload

\* an error entry that does not quote the debugger's message
ErrorTextGeneric(e) == <<"GDB Error">>

\* main.py 202-204 and 207-209: which error entry is logged, if any
ErrorText(e) ==
    IF IsPlainError(e.payload)
    THEN <<"GDB Error: ", e.payload.msg>>
    ELSE <<"Error: ", Get(e.payload, "msg", "Unknown Error")>>

HasError(e) == IsPlainError(e.payload) \/ e.message = "error"

\* main.py 202: payload is None, payload.get raises AttributeError, which
\* leaves on_gdb_event and is caught in the read loop
HErrRaise ==
    /\ hpc = "errchk" /\ cur \in {Free, LoopId}
    /\ hev.payload = NoPayload
    /\ hpc' = "idle" /\ lpc' = "caught" /\ cur' = LoopId
    /\ UNCHANGED <<session, websocket, log_history, wrapper, buffer,
                   hev, hprev, hidx, conns, open, sent, wlog, budget, clock>>
    /\ UNCHANGED registry

\* main.py 202-204 / 207-209
HErrLog ==
    /\ hpc = "errchk" /\ cur \in {Free, LoopId}
    /\ hev.payload # NoPayload
    /\ HasError(hev)
    /\ LET m == LogMsg("error", ErrorText(hev), clock + 1)
           r == SendJson(websocket, sent, m, "live")
       IN  /\ log_history' = LogAppend(log_history, m)
           /\ websocket' = r.ws /\ sent' = r.sent
           /\ Leave("errsend", r.susp)
    /\ clock' = clock + 1
    /\ UNCHANGED <<session, wrapper, lpc, buffer, hev, hprev, hidx, conns, open,
                   wlog, budget>>
    /\ UNCHANGED registry

\* main.py 205 / 210
HErrSend ==
    /\ hpc = "errsend" /\ cur \in {Free, LoopId}
    /\ LET m == [type |-> "error",
                 payload |-> Get(hev.payload, "msg", "Unknown Error")]
           r == SendJson(websocket, sent, m, "live")
       IN  /\ websocket' = r.ws /\ sent' = r.sent
           /\ Leave("idle", r.susp)
    /\ UNCHANGED <<session, log_history, wrapper, lpc, buffer, hev, hprev, hidx,
                   conns, open, wlog, budget, clock>>
    /\ UNCHANGED registry

\* main.py 202, 207: neither error branch applies
HNoError ==
    /\ hpc = "errchk" /\ cur \in {Free, LoopId}
    /\ hev.payload # NoPayload
    /\ ~HasError(hev)
    /\ Leave("idle", FALSE)
    /\ UNCHANGED <<session, websocket, log_history, wrapper, lpc, buffer,
                   hev, hprev, hidx, conns, open, sent, wlog, budget, clock>>
    /\ UNCHANGED registry

\* ------------------------------------------------ connection handlers ----
Continue(t, p, susp) ==
    /\ cpc' = [cpc EXCEPT ![t] = p]
    /\ cur' = IF susp THEN Free ELSE t

\* main.py 280-293 and 43-47: a client connects; handler() resolves the
\* session and attach() first closes the transport attached so far
Connect(t) ==
    /\ cpc[t] = "new" /\ cur = Free /\ t <= budget.tr
    /\ \A u \in Transports : u < t => cpc[u] # "new"
    /\ LET g == GetOrCreate(sessions, created, SessionId)
       IN  sessions' = g.reg /\ created' = g.created
    /\ open' = [u \in Transports |->
                  IF u = t THEN TRUE
                  ELSE IF u = websocket THEN FALSE ELSE open[u]]
    /\ Continue(t, IF websocket # NoWs THEN "closing" ELSE "attach",
                websocket # NoWs)
    /\ UNCHANGED <<session, websocket, log_history, wrapper, looper, cact,
                   cexe, inbox, csent, replay, sent, wlog, budget, clock>>

\* main.py 49-53
Attach(t) ==
    /\ cpc[t] \in {"closing", "attach"} /\ cur \in {Free, t}
    /\ LET r == SendJson(t, sent,
                         ToDict(status, location, stack, variables),
                         IF cpc[t] = "closing" THEN "replace" ELSE "attach")
       IN  /\ websocket' = r.ws /\ sent' = r.sent
           /\ Continue(t, "slice", r.susp)
    /\ UNCHANGED <<session, log_history, wrapper, looper, cact, cexe, inbox, csent,
                   replay, open, wlog, budget, clock>>
    /\ UNCHANGED registry

\* main.py 56: the slice is taken once, when the for loop starts
ReplayBegin(t) ==
    /\ cpc[t] = "slice" /\ cur \in {Free, t}
    /\ replay' = [replay EXCEPT ![t] = ReplaySlice(log_history)]
    /\ Continue(t, "replay", FALSE)
    /\ UNCHANGED <<session, websocket, log_history, wrapper, looper, cact,
                   cexe, inbox, csent, open, sent, wlog, budget, clock>>
    /\ UNCHANGED registry

\* main.py 56-57: one iteration of the replay loop
ReplayStep(t) ==
    /\ cpc[t] = "replay" /\ cur \in {Free, t}
    /\ replay[t] # <<>>
    /\ LET r == SendJson(websocket, sent, Head(replay[t]), "replay")
       IN  /\ websocket' = r.ws /\ sent' = r.sent
           /\ Continue(t, "replay", r.susp)
    /\ replay' = [replay EXCEPT ![t] = Tail(@)]
    /\ UNCHANGED <<session, log_history, wrapper, looper, cact, cexe, inbox, csent,
                   open, wlog, budget, clock>>
    /\ UNCHANGED registry

\* main.py 296: attach() returned, the handler waits for a message
ReplayDone(t) ==
    /\ cpc[t] = "replay" /\ cur \in {Free, t}
    /\ replay[t] = <<>>
    /\ Continue(t, "recv", TRUE)
    /\ UNCHANGED <<session, websocket, log_history, wrapper, looper, cact,
                   cexe, inbox, csent, replay, open, sent, wlog, budget, clock>>
    /\ UNCHANGED registry

\* the client goes away (or the network does)
ClientClose(t) ==
    /\ open[t] /\ cpc[t] # "new" /\ cur = Free
    /\ open' = [open EXCEPT ![t] = FALSE]
    /\ UNCHANGED <<session, websocket, log_history, wrapper, looper, conns,
                   sent, wlog, cur, budget, clock>>
    /\ UNCHANGED registry

\* detach() that also marks the channel as stopped
DetachStopsChannel(ws, run) == [ws |-> NoWs, running |-> FALSE]

\* main.py 59-61: detach() clears the transport reference and leaves the
\* channel alone
Detach(ws, run) == [ws |-> NoWs, running |-> run]

\* main.py 303-306: the connection is closed; finally: session.detach()
Closed(t) ==
    /\ cpc[t] = "recv" /\ cur = Free /\ ~open[t]
    /\ LET d == Detach(websocket, running)
       IN  websocket' = d.ws /\ running' = d.running
    /\ cpc' = [cpc EXCEPT ![t] = "gone"]
    /\ UNCHANGED <<session, log_history, process, master_fd, fdstate, procs,
                   looper, cact, cexe, inbox, csent, replay, open, sent, wlog, cur,
                   budget, clock>>
    /\ UNCHANGED registry

\* ----------------------------------------------------- handle_command ----
\* start() without the os.path.exists check
StartOutcomesNoCheck(exe) == {"ok", "spawnfail"}

\* native_gdb.py 18-44: how start() can end for an executable path
StartOutcomes(exe) ==
    IF ~Exists(exe) THEN {"notfound"} ELSE {"ok", "spawnfail"}

\* native_gdb.py 19: the descriptor pty.openpty() returns
NewFd == Len(fdstate) + 1

\* native_gdb.py 25 / 41: text of the exception start() raises
StartErrorText(exe) ==
    IF ~Exists(exe) THEN <<"Binary not found: ", exe>>
    ELSE <<"[Errno 2] No such file or directory: 'gdb'">>

\* messages of this behaviour's clients
Messages == Get(budget, "msgs", CoreMessages)

\* the newest frame handed over first
TakeNewest(q) == [msg |-> q[Len(q)], rest |-> SubSeq(q, 1, Len(q) - 1)]

\* main.py 296: "async for message in websocket" hands over the frames
\* received in receipt order
TakeMessage(q) == [msg |-> Head(q), rest |-> Tail(q)]

\* main.py 296-301: the next client message (one received before the
\* connection closed is still handed over) starts handle_command(a, x).
\* The message is the oldest one waiting, or one the client sends while
\* the handler waits for it.
Recv(t, a, x) ==
    /\ cpc[t] = "recv" /\ cur = Free
    /\ Msg(a, x) \in Messages
    /\ \/ /\ inbox[t] = <<>>
          /\ budget.cmd > 0 /\ budget' = [budget EXCEPT !.cmd = @ - 1]
          /\ csent' = [csent EXCEPT ![t] = Append(@, Msg(a, x))]
          /\ UNCHANGED inbox
       \/ /\ inbox[t] # <<>>
          /\ TakeMessage(inbox[t]).msg = Msg(a, x)
          /\ inbox' = [inbox EXCEPT ![t] = TakeMessage(@).rest]
          /\ UNCHANGED <<budget, csent>>
    /\ cact' = [cact EXCEPT ![t] = a]
    /\ cexe' = [cexe EXCEPT ![t] = Get(x, "executable", "none")]

\* a client sends a message while the handler is busy with an earlier one
\* or has not begun to receive
ClientSend(t) ==
    /\ open[t] /\ cur = Free
    /\ Get(budget, "ahead", 0) > Len(inbox[t])
    /\ budget.cmd > 0 /\ budget' = [budget EXCEPT !.cmd = @ - 1]
    /\ \E m \in Messages :
          /\ inbox' = [inbox EXCEPT ![t] = Append(@, m)]
          /\ csent' = [csent EXCEPT ![t] = Append(@, m)]
    /\ UNCHANGED <<session, websocket, log_history, wrapper, looper, cpc,
                   cact, cexe, replay, open, sent, wlog, cur, clock>>
    /\ UNCHANGED registry

\* main.py 214-220 with native_gdb.py 18-44 succeeding
DoInitOk(t) ==
    /\ \E x \in Executables :
          Recv(t, "init", [executable |-> x]) /\ "ok" \in StartOutcomes(x)
    /\ master_fd' = NewFd
    /\ fdstate' = Append(fdstate, "live")
    /\ process' = NewFd /\ procs' = procs \cup {NewFd}
    /\ running' = TRUE
    /\ status' = "Ready" /\ stack' = <<>> /\ variables' = <<>>
    /\ UNCHANGED location
    /\ LET r == SendJson(websocket, sent,
                         ToDict("Ready", location, <<>>, <<>>), "live")
       IN  /\ websocket' = r.ws /\ sent' = r.sent
    /\ Continue(t, "recv", TRUE)
    /\ UNCHANGED <<log_history, looper, replay, open, wlog, clock>>
    /\ UNCHANGED registry

\* main.py 221-222 with native_gdb.py 19-26 or 38-41 raising
DoInitFail(t) ==
    /\ \E x \in Executables :
          /\ Recv(t, "init", [executable |-> x])
          /\ \E o \in StartOutcomes(x) \ {"ok"} :
                fdstate' = Append(fdstate,
                              IF o = "notfound" THEN "nogdb" ELSE "closed")
    /\ master_fd' = NewFd
    /\ UNCHANGED <<process, running, procs, session>>
    /\ LET m == LogMsg("error",
                       <<"Failed to start GDB: ">> \o StartErrorText(cexe'[t]),
                       clock + 1)
           r == SendJson(websocket, sent, m, "live")
       IN  /\ log_history' = LogAppend(log_history, m)
           /\ websocket' = r.ws /\ sent' = r.sent
           /\ Continue(t, "initerr", r.susp)
    /\ clock' = clock + 1
    /\ UNCHANGED <<looper, replay, open, wlog>>
    /\ UNCHANGED registry

\* main.py 223
InitErrSend(t) ==
    /\ cpc[t] = "initerr" /\ cur \in {Free, t}
    /\ LET m == [type |-> "error",
                 payload |-> <<"Startup Failed: ">> \o StartErrorText(cexe[t])]
           r == SendJson(websocket, sent, m, "live")
       IN  /\ websocket' = r.ws /\ sent' = r.sent
    /\ Continue(t, "recv", TRUE)
    /\ UNCHANGED <<session, log_history, wrapper, looper, cact, cexe, inbox, csent,
                   replay, open, wlog, budget, clock>>
    /\ UNCHANGED registry

\* stop() that forgets the descriptor without closing it
StopFdsLeak(fds, fd, proc) ==
    IF proc # NoProc /\ fds[proc] = "live"
    THEN [fds EXCEPT ![proc] = "nogdb"] ELSE fds

\* native_gdb.py 46-60: descriptors after stop() killed the process and
\* closed the terminal
StopFds(fds, fd, proc) ==
    LET f1 == IF proc # NoProc /\ fds[proc] = "live"
              THEN [fds EXCEPT ![proc] = "nogdb"] ELSE fds
    IN  IF fd # NoFd THEN [f1 EXCEPT ![fd] = "closed"] ELSE f1

\* main.py 225-228 with native_gdb.py 46-61
DoStop(t) ==
    /\ Recv(t, "stop", NoArgs)
    /\ fdstate' = StopFds(fdstate, master_fd, process)
    /\ procs' = procs \ {process}
    /\ process' = NoProc /\ master_fd' = NoFd /\ running' = FALSE
    /\ status' = "Ready"
    /\ UNCHANGED <<location, stack, variables>>
    /\ LET r == SendJson(websocket, sent,
                         ToDict("Ready", location, stack, variables), "live")
       IN  /\ websocket' = r.ws /\ sent' = r.sent
    /\ Continue(t, "recv", TRUE)
    /\ UNCHANGED <<log_history, looper, replay, open, wlog, clock>>
    /\ UNCHANGED registry

\* an exception leaves handle_command: handler() runs its finally clause
\* (main.py 305-306) and the connection is torn down
Raised(t) ==
    /\ LET d == Detach(websocket, running)
       IN  websocket' = d.ws /\ running' = d.running
    /\ open' = [open EXCEPT ![t] = FALSE]
    /\ cpc' = [cpc EXCEPT ![t] = "gone"]
    /\ cur' = Free

Returned(t) ==
    /\ UNCHANGED <<websocket, open, running>>
    /\ Continue(t, "recv", TRUE)

\* main.py 255-258
DoGetContext(t) ==
    /\ Recv(t, "get_context", NoArgs)
    /\ \E w \in TwoWrites(t, hidx, CmdFrames, CmdLocals) :
          /\ wlog' = wlog \o w.wlog
          /\ IF w.raised THEN Raised(t) ELSE Returned(t)
    /\ UNCHANGED <<session, log_history, process, master_fd, fdstate, procs,
                   looper, replay, sent, clock>>
    /\ UNCHANGED registry

Digit(d) ==
    CASE d = 0 -> "0" [] d = 1 -> "1" [] d = 2 -> "2" [] d = 3 -> "3"
      [] d = 4 -> "4" [] d = 5 -> "5" [] d = 6 -> "6" [] d = 7 -> "7"
      [] d = 8 -> "8" [] d = 9 -> "9"

\* str() of a non-negative int
RECURSIVE Decimal(_)
Decimal(n) ==
    IF n < 10 THEN Digit(n) ELSE Decimal(n \div 10) \o Digit(n % 10)

\* the same table with an empty command for an action it does not list
CmdOfNoPassthrough(a, args) ==
    CASE a = "run" ->
            IF Get(args, "stop_at_entry", FALSE)
            THEN "-exec-run --start" ELSE "-exec-run"
      [] a = "next" -> "-exec-next"
      [] a = "step" -> "-exec-step"
      [] a = "continue" -> "-exec-continue"
      [] a = "break" ->
            "201-break-insert " \o Get(args, "location", NoneVal)
      [] a = "remove_breakpoint" ->
            "-break-delete " \o Get(args, "id", NoneVal)
      [] a = "var_create" ->
            "301-var-create - * " \o Get(args, "expression", NoneVal)
      [] a = "var_list_children" ->
            "302-var-list-children --all-values "
               \o Get(args, "name", NoneVal)
      [] a = "read_memory" ->
            "401-data-read-memory-bytes "
               \o Get(args, "address", NoneVal) \o " "
               \o Decimal(Get(args, "count", DefaultCount))
      [] OTHER -> ""

\* main.py 231-253: the command string of a single-command action
CmdOf(a, args) ==
    CASE a = "run" ->
            IF Get(args, "stop_at_entry", FALSE)
            THEN "-exec-run --start" ELSE "-exec-run"
      [] a = "next" -> "-exec-next"
      [] a = "step" -> "-exec-step"
      [] a = "continue" -> "-exec-continue"
      [] a = "break" ->
            "201-break-insert " \o Get(args, "location", NoneVal)
      [] a = "remove_breakpoint" ->
            "-break-delete " \o Get(args, "id", NoneVal)
      [] a = "var_create" ->
            "301-var-create - * " \o Get(args, "expression", NoneVal)
      [] a = "var_list_children" ->
            "302-var-list-children --all-values "
               \o Get(args, "name", NoneVal)
      [] a = "read_memory" ->
            "401-data-read-memory-bytes "
               \o Get(args, "address", NoneVal) \o " "
               \o Decimal(Get(args, "count", DefaultCount))
      [] OTHER -> a

\* main.py 260
DoWrite(t) ==
    /\ \E m \in Messages :
          /\ m.action \notin {"init", "stop", "get_context"}
          /\ Recv(t, m.action, m.args)
          /\ \E r \in WriteOutcomes(master_fd, fdstate) :
                /\ wlog' = Append(wlog,
                              WriteRec(t, hidx, CmdOf(m.action, m.args), r))
                /\ IF r = "raise" THEN Raised(t) ELSE Returned(t)
    /\ UNCHANGED <<session, log_history, process, master_fd, fdstate, procs,
                   looper, replay, sent, clock>>
    /\ UNCHANGED registry

\* ------------------------------------------------------ specification ----
LoopStep ==
    \/ LoopRead \/ LoopExit \/ LoopSelectFail \/ LoopDrained
    \/ ProcExit \/ LoopEOF \/ LoopSkip \/ LoopCaught
    \/ OnConsole \/ OnOtherType
    \/ OnRunning \/ OnExited \/ OnPaused \/ OnOtherNotify
    \/ OnStackResult \/ OnLocalsResult \/ OnReplyResult \/ OnOtherResult
    \/ HLog \/ HFetch \/ HErrRaise \/ HErrLog \/ HErrSend \/ HNoError

ConnStep(t) ==
    \/ Connect(t) \/ Attach(t) \/ ReplayBegin(t) \/ ReplayStep(t)
    \/ ReplayDone(t) \/ ClientClose(t) \/ Closed(t)
    \/ DoInitOk(t) \/ DoInitFail(t) \/ InitErrSend(t) \/ DoStop(t)
    \/ DoGetContext(t) \/ DoWrite(t) \/ ClientSend(t)

Next == LoopStep \/ \E t \in Transports : ConnStep(t)

Spec == Init /\ [][Next]_vars

\* The session after one connection started the debugger and went away
\* and n "running" notifications were handled with nothing attached: the
\* state from which the log capacity is within reach.
Prefill(n) == [i \in 1 .. n |-> LogMsg("info", <<"[Running]">>, i)]

\* what is still to come from that state: a second connection with one
\* command and one line, or with lines and messages of the other kinds
LogBudgets == { [tr |-> 2, cmd |-> 1, ev |-> 1],
                [tr |-> 2, cmd |-> 0, ev |-> 1, evs |-> ErrorEvents],
                [tr |-> 2, cmd |-> 1, ev |-> 0, ahead |-> 1],
                [tr |-> 2, cmd |-> 1, ev |-> 0, exit |-> 1],
                [tr |-> 1, cmd |-> 0, ev |-> 1, evs |-> {},
                 lines |-> ParserLines] }

InitLog ==
    /\ status = "Running" /\ location = NoLoc
    /\ stack = <<>> /\ variables = <<>>
    /\ websocket = NoWs
    /\ \E n \in {LogCap - 1, LogCap} :
          /\ log_history = Prefill(n) /\ clock = n /\ hidx = n
    /\ process = 1 /\ running = TRUE /\ master_fd = 1
    /\ fdstate = <<"live">> /\ procs = {1}
    /\ lpc = "select" /\ buffer = <<>>
    /\ hpc = "idle" /\ hev = EvRunning /\ hprev = EvRunning
    /\ cpc = [t \in Transports |-> IF t = 1 THEN "gone" ELSE "new"]
    /\ cact = [t \in Transports |-> IF t = 1 THEN "init" ELSE "none"]
    /\ cexe = [t \in Transports |-> IF t = 1 THEN "/bin/true" ELSE "none"]
    /\ replay = [t \in Transports |-> <<>>]
    /\ inbox = [t \in Transports |-> <<>>]
    /\ csent = [t \in Transports |->
                  IF t = 1
                  THEN << Msg("init", [executable |-> "/bin/true"]) >>
                  ELSE <<>>]
    /\ open = [t \in Transports |-> FALSE]
    /\ sent = [t \in Transports |->
                 IF t = 1
                 THEN << [msg |-> ToDict("Ready", NoLoc, <<>>, <<>>),
                          via |-> "attach"],
                         [msg |-> ToDict("Ready", NoLoc, <<>>, <<>>),
                          via |-> "live"] >>
                 ELSE <<>>]
    /\ wlog = <<>>
    /\ cur = Free
    /\ budget \in LogBudgets
    /\ sessions = [i \in {SessionId} |-> 1] /\ created = 1

SpecLog == InitLog /\ [][Next]_vars

\* ======================================================== properties ====
\* the step that enters on_gdb_event (its event is hev')
Entering == hidx' = hidx + 1

IsExit(e) ==
    /\ e.type = "notify" /\ e.message = "stopped"
    /\ "reason" \in DOMAIN e.payload
    /\ e.payload.reason \in {"exited", "exited-normally"}

IsNonExitStop(e) ==
    /\ e.type = "notify" /\ e.message = "stopped"
    /\ ~IsExit(e)

IsRunningEv(e) == e.type = "notify" /\ e.message = "running"

\* file/line/func of a frame record
FrameLoc(f) ==
    [file |-> IF "file" \in DOMAIN f THEN f.file ELSE NoneVal,
     line |-> IF "line" \in DOMAIN f THEN f.line ELSE NoneVal,
     func |-> IF "func" \in DOMAIN f THEN f.func ELSE NoneVal]

\* commands the read-loop handler issued while handling event number k
HandlerCmds(wl, k) ==
    LET mine(w) == w.by = LoopId /\ w.ev = k
        sel == SelectSeq(wl, mine)
    IN  [i \in 1 .. Len(sel) |-> sel[i].cmd]

Snapshot(st, loc, stk, vs) ==
    [type |-> "state_update",
     payload |-> [status |-> st, location |-> loc,
                  stack |-> stk, variables |-> vs]]

\* the frame data was accepted by the transport attached before the step
Delivered(data) ==
    (websocket # NoWs /\ open[websocket]) =>
        /\ Len(sent'[websocket]) = Len(sent[websocket]) + 1
        /\ sent'[websocket][Len(sent'[websocket])].msg = data

\* exactly one entry was appended to the history (the oldest dropped at
\* capacity) and it is an entry of this level and text
Logged(level, text) ==
    /\ log_history' # <<>>
    /\ log_history'[Len(log_history')].payload.level = level
    /\ log_history'[Len(log_history')].payload.text = text
    /\ \/ /\ Len(log_history) < LogCap
          /\ Len(log_history') = Len(log_history) + 1
          /\ SubSeq(log_history', 1, Len(log_history)) = log_history
       \/ /\ Len(log_history) = LogCap
          /\ Len(log_history') = LogCap
          /\ SubSeq(log_history', 1, LogCap - 1) = Tail(log_history)
    /\ Delivered(log_history'[Len(log_history')])

\* C1: every non-exit "stopped" notification, in any session state, sets
\* status to Paused and location to the file/line/func of its frame, and
\* its handler issues exactly the token-101 command and then the token-102
\* command, and no other command.
C1_StoppedFetchesContext ==
    [][ /\ (Entering /\ IsNonExitStop(hev')) =>
              /\ status' = "Paused"
              /\ "frame" \in DOMAIN hev'.payload =>
                     location' = FrameLoc(hev'.payload.frame)
              /\ wlog' = wlog
        /\ (IsNonExitStop(hev) /\ hpc = "log" /\ hpc' # "log") =>
              wlog' = wlog
        /\ (IsNonExitStop(hev) /\ hpc = "fetch" /\ hpc' # "fetch") =>
              HandlerCmds(wlog', hidx) = <<CmdFrames, CmdLocals>>
      ]_vars

\* C2: every "stopped" notification with reason exited or exited-normally,
\* in any session state, sets status to Exited and empties location, stack
\* and variables; the snapshot is emitted, one info log entry naming the
\* reason is appended, and the handler issues no command.
C2_ExitedClearsState ==
    [][ /\ (Entering /\ IsExit(hev')) =>
              /\ status' = "Exited" /\ location' = NoLoc
              /\ stack' = <<>> /\ variables' = <<>>
              /\ Delivered(Snapshot("Exited", NoLoc, <<>>, <<>>))
              /\ log_history' = log_history /\ wlog' = wlog
              /\ hpc' = "log"
        /\ (IsExit(hev) /\ hpc = "log" /\ hpc' # "log") =>
              /\ Logged("info", <<"[Exited] Reason: ", hev.payload.reason>>)
              /\ hpc' = "idle" /\ wlog' = wlog
              /\ UNCHANGED <<status, location, stack, variables>>
      ]_vars

C2_Witness ==
    /\ hpc = "idle" /\ IsExit(hev) /\ hev.payload.reason = "exited"
    /\ status = "Exited" /\ location = NoLoc
    /\ log_history # <<>>
    /\ log_history[Len(log_history)].payload.text
          = <<"[Exited] Reason: ", "exited">>
    /\ \E t \in Transports : \E i \in 1 .. Len(sent[t]) :
          sent[t][i].msg = Snapshot("Exited", NoLoc, <<>>, <<>>)

\* C3: a "running" notification, in any session state, sets status to
\* Running, clears location, stack and variables, emits a snapshot of the
\* cleared state and appends exactly one info log entry.
C3_RunningClearsState ==
    [][ /\ (Entering /\ IsRunningEv(hev')) =>
              /\ status' = "Running" /\ location' = NoLoc
              /\ stack' = <<>> /\ variables' = <<>>
              /\ Delivered(Snapshot("Running", NoLoc, <<>>, <<>>))
              /\ log_history' = log_history
              /\ hpc' = "log"
        /\ (IsRunningEv(hev) /\ hpc = "log" /\ hpc' # "log") =>
              /\ Logged("info", <<"[Running]">>)
              /\ hpc' = "idle"
              /\ UNCHANGED <<status, location, stack, variables>>
      ]_vars

\* a "running" notification was handled in Paused with context present
C3_Witness ==
    /\ hpc = "idle" /\ IsRunningEv(hev)
    /\ status = "Running" /\ stack = <<>> /\ location = NoLoc
    /\ \E t \in Transports : \E i \in 2 .. Len(sent[t]) :
          /\ sent[t][i].msg = Snapshot("Running", NoLoc, <<>>, <<>>)
          /\ sent[t][i - 1].msg.type = "state_update"
          /\ sent[t][i - 1].msg.payload.status = "Paused"
          /\ sent[t][i - 1].msg.payload.stack # <<>>

\* the step in which an init command's start() succeeded
InitSucceeded ==
    /\ Len(fdstate') = Len(fdstate) + 1
    /\ fdstate'[Len(fdstate')] = "live"

\* C4: after a successful init issued in any session state (Paused with a
\* location included), status is Ready and location, stack and variables
\* are all cleared, and the snapshot emitted carries that cleared state.
C4_InitClearsState ==
    [][ InitSucceeded =>
          /\ status' = "Ready" /\ location' = NoLoc
          /\ stack' = <<>> /\ variables' = <<>>
          /\ Delivered(Snapshot("Ready", NoLoc, <<>>, <<>>))
      ]_vars

IsLog(m) == m.msg.type = "log_event"

\* log entries a transport accepted arrive in strictly increasing
\* timestamp order, after the snapshot that attach() sends
InOrderAfterSnapshot(q) ==
    q # <<>> =>
       /\ q[1].via \in {"attach", "replace"}
       /\ q[1].msg.type = "state_update"
       /\ \A i, j \in 1 .. Len(q) :
             (i < j /\ IsLog(q[i]) /\ IsLog(q[j])) =>
                q[i].msg.payload.timestamp < q[j].msg.payload.timestamp

AttachOrdered == \A t \in Transports : InOrderAfterSnapshot(sent[t])

\* C5: attach(transport) on a session that has a transport closes the
\* previous one before replacing it, then sends the new transport the
\* snapshot first and then the most recent log entries in chronological
\* order, also when events are handled concurrently: no log entry reaches
\* the new transport ahead of the snapshot or out of chronological order.
C5_AttachSnapshotThenReplay ==
    [][ /\ \A t \in Transports :
              (cpc[t] \in {"closing", "attach"} /\ cpc'[t] = "slice") =>
                 /\ (websocket \notin {NoWs, t} => ~open[websocket])
                 /\ open[t] =>
                       sent'[t] = << [msg |-> Snapshot(status, location,
                                                       stack, variables),
                                      via |-> sent'[t][1].via] >>
        /\ AttachOrdered'
      ]_vars

ReplayedTo(t) == SelectSeq(sent[t], LAMBDA m : m.via = "replay")

\* C6: detaching and then re-attaching delivers the last-known snapshot
\* followed by at most 10 replayed log entries in original order, and never
\* delivers again a log entry that had been delivered before the detach
\* (connections 1..N are successive connections of the client; a first
\* frame tagged "attach" means nothing was attached when it connected).
C6_ReattachNoRedelivery ==
    \A t \in Transports :
       (sent[t] # <<>> /\ sent[t][1].via = "attach") =>
          /\ sent[t][1].msg.type = "state_update"
          /\ Len(ReplayedTo(t)) <= ReplayLen
          /\ \A i, j \in 1 .. Len(ReplayedTo(t)) :
                i < j => ReplayedTo(t)[i].msg.payload.timestamp
                            < ReplayedTo(t)[j].msg.payload.timestamp
          /\ \A u \in Transports : \A i \in 1 .. Len(ReplayedTo(t)) :
                u < t => \A j \in 1 .. Len(sent[u]) :
                            sent[u][j].msg # ReplayedTo(t)[i].msg

\* messages of client t handed to handle_command so far
Handled(t) == Len(csent[t]) - Len(inbox[t])

\* the step in which connection t's handler takes the next message
Handling(t) == cpc[t] = "recv" /\ Handled(t)' = Handled(t) + 1

\* the message taken in that step
Taken(t) == csent'[t][Handled(t)']

\* the step in which connection t's handler runs detach() on disconnect
Detaching(t) ==
    cpc[t] = "recv" /\ cpc'[t] = "gone" /\ ~Handling(t)

\* C7: detach() changes only the transport reference: the channel and its
\* read loop are untouched, status/location/stack/variables are unchanged;
\* events handled while nothing is attached still mutate the state and
\* append to the history, and a later attach sends the state as of then.
C7_DetachOnlyClearsTransport ==
    [][ /\ \A t \in Transports :
              Detaching(t) =>
                 /\ websocket' = NoWs
                 /\ UNCHANGED <<status, location, stack, variables,
                                log_history, process, running, master_fd,
                                fdstate, procs, lpc, buffer, hpc, hev, hidx,
                                sent, wlog>>
        /\ (websocket = NoWs /\ Entering /\ IsRunningEv(hev')) =>
              status' = "Running"
        /\ (websocket = NoWs /\ Entering /\ IsExit(hev')) =>
              status' = "Exited"
        /\ (websocket = NoWs /\ Entering /\ IsNonExitStop(hev')) =>
              status' = "Paused"
        /\ (websocket = NoWs /\ hpc = "log" /\ hpc' # "log") =>
              /\ log_history' # <<>>
              /\ log_history'[Len(log_history')].payload.timestamp
                    = clock + 1
              /\ Len(log_history') >= Len(log_history)
        /\ \A t \in Transports :
              (cpc[t] \in {"closing", "attach"} /\ cpc'[t] = "slice"
                 /\ open[t]) =>
                 sent'[t][Len(sent'[t])].msg
                    = Snapshot(status, location, stack, variables)
      ]_vars

\* connection 1 detached, the debugger then stopped at a location with
\* nothing attached, and connection 2 was sent that state on attach
C7_Witness ==
    /\ cpc[1] = "gone" /\ websocket = 2 /\ running
    /\ sent[2] # <<>> /\ sent[2][1].via = "attach"
    /\ sent[2][1].msg.payload.status = "Paused"
    /\ sent[2][1].msg.payload.location # NoLoc
    /\ \A i \in 1 .. Len(sent[1]) :
          sent[1][i].msg.type = "state_update" =>
             sent[1][i].msg.payload.status = "Ready"
    /\ log_history # <<>>

\* C8: the history never holds more than 50 entries and is always the most
\* recent entries in append order (the oldest is the one evicted).
C8_LogBounded ==
    /\ Len(log_history) <= LogCap
    /\ \A i \in 1 .. Len(log_history) :
          log_history[i].payload.timestamp
             = clock - Len(log_history) + i
    /\ Len(log_history) = IF clock < LogCap THEN clock ELSE LogCap

\* an append evicted the oldest entry
C8_Witness ==
    /\ clock > LogCap /\ Len(log_history) = LogCap
    /\ log_history[1].payload.timestamp = clock - LogCap + 1

Quiescent ==
    /\ hpc = "idle"
    /\ \A t \in Transports : cpc[t] \in {"new", "recv", "gone"}

LastStateUpdate(q) ==
    LET su == SelectSeq(q, LAMBDA m : m.msg.type = "state_update")
    IN  su[Len(su)].msg

\* C9: every mutation of status, location, stack or variables is followed
\* by a state_update carrying the complete new state: with a transport
\* attached and every handler finished, the last state_update sent to it
\* equals the session's current state, under any interleaving.
C9_SnapshotFollowsMutation ==
    \A t \in Transports :
       (websocket = t /\ Quiescent) =>
          /\ \E i \in 1 .. Len(sent[t]) : sent[t][i].msg.type = "state_update"
          /\ LastStateUpdate(sent[t])
                = Snapshot(status, location, stack, variables)

\* stack and variables were filled with a transport attached
C9_Witness ==
    /\ websocket = 1 /\ Quiescent
    /\ status = "Paused" /\ location # NoLoc /\ stack # <<>>
    /\ Len(sent[1]) >= 4

\* the step in which connection t's handler runs a command other than
\* init and stop (the ones that reach wrapper.write)
Commanding(t) ==
    /\ Handling(t)
    /\ Len(wlog') > Len(wlog) /\ wlog'[Len(wlog')].by = t

\* C10: a command written while the channel is not open (never started, or
\* stopped) raises no error, delivers nothing to any subprocess, changes
\* no session state and emits no message.
C10_WriteOnClosedChannel ==
    [][ \A t \in Transports :
           (Commanding(t) /\ master_fd = NoFd) =>
              /\ cpc'[t] = "recv"
              /\ \A i \in Len(wlog) + 1 .. Len(wlog') :
                    wlog'[i].res = "noop"
              /\ UNCHANGED <<status, location, stack, variables,
                             log_history, sent, websocket, open, process,
                             running, master_fd, fdstate, procs>>
      ]_vars

\* a command was written after the channel had been started and stopped
C10_Witness ==
    /\ master_fd = NoFd /\ fdstate # <<>> /\ ~running
    /\ wlog # <<>> /\ wlog[Len(wlog)].res = "noop"
    /\ wlog[Len(wlog)].by \in Transports
    /\ cpc[wlog[Len(wlog)].by] = "recv"

\* the read loop's step that observes end-of-stream or a read error
ObservesEOF ==
    /\ lpc = "select" /\ lpc' = "done"
    /\ running /\ master_fd # NoFd /\ fdstate[master_fd] = "eof"

\* the read loop has ended on end-of-stream and nothing restarted the
\* channel since
EndedOnEOF ==
    lpc = "done" /\ master_fd # NoFd /\ fdstate[master_fd] = "eof"

\* C11: when the read loop observes end-of-stream or an OS-level read
\* error, the loop exits and the channel is marked closed (no descriptor,
\* not running), and every later write on that channel is a no-op that
\* raises no error.
C11_EofClosesChannel ==
    [][ /\ ObservesEOF => (master_fd' = NoFd /\ ~running')
        /\ \A t \in Transports :
              (Commanding(t) /\ EndedOnEOF) =>
                 /\ cpc'[t] = "recv"
                 /\ \A i \in Len(wlog) + 1 .. Len(wlog') :
                       wlog'[i].res = "noop"
      ]_vars

\* the step in which connection t's handler takes an init command whose
\* executable does not exist
InitMissing(t) ==
    /\ Handling(t) /\ Taken(t).action = "init"
    /\ "executable" \in DOMAIN Taken(t).args
    /\ Taken(t).args.executable # "/bin/true"

\* C12: an init command whose executable does not exist, issued in any
\* session state, appends an error-level log entry and emits an error
\* message, leaves status, location, stack and variables as they were,
\* and no exception escapes the command handler (it goes on receiving).
C12_InitMissingExecutable ==
    [][ \A t \in Transports :
          /\ InitMissing(t) =>
                /\ UNCHANGED <<status, location, stack, variables>>
                /\ Logged("error", <<"Failed to start GDB: ",
                                     "Binary not found: ",
                                     Taken(t).args.executable>>)
                /\ cpc'[t] = "initerr"
          /\ (cpc[t] = "initerr" /\ cpc'[t] # "initerr"
                 /\ cexe[t] # "/bin/true") =>
                /\ UNCHANGED <<status, location, stack, variables,
                               log_history>>
                /\ Delivered([type |-> "error",
                              payload |-> <<"Startup Failed: ",
                                            "Binary not found: ", cexe[t]>>])
                /\ cpc'[t] = "recv" /\ open'[t] = open[t]
      ]_vars

\* an init of a missing executable was answered in a paused session
C12_Witness ==
    \E t \in Transports :
       /\ cpc[t] = "recv" /\ cact[t] = "init" /\ cexe[t] = "/nonexistent"
       /\ status = "Paused" /\ location # NoLoc
       /\ sent[t] # <<>> /\ sent[t][Len(sent[t])].msg.type = "error"
       /\ log_history # <<>>
       /\ log_history[Len(log_history)].payload.level = "error"

\* the step in which connection t's handler takes a stop command
Stopping(t) == Handling(t) /\ Taken(t).action = "stop"

\* C13: the stop action, in any session state and any number of times in
\* succession, leaves the channel not running with no process handle and
\* no terminal descriptor (the process is gone, the descriptor closed),
\* raises no error, forces status to Ready, emits a snapshot and leaves
\* location, stack and variables unchanged.
C13_StopIdempotent ==
    [][ \A t \in Transports :
          Stopping(t) =>
             /\ ~running' /\ process' = NoProc /\ master_fd' = NoFd
             /\ master_fd # NoFd => fdstate'[master_fd] = "closed"
             /\ process # NoProc => process \notin procs'
             /\ status' = "Ready"
             /\ UNCHANGED <<location, stack, variables>>
             /\ Delivered(Snapshot("Ready", location, stack, variables))
             /\ cpc'[t] = "recv" /\ open'[t] = open[t]
      ]_vars

\* a started channel was stopped twice in succession
C13_Witness ==
    \E t \in Transports : \E i \in 1 .. Len(csent[t]) :
       /\ i + 1 <= Handled(t)
       /\ csent[t][i].action = "stop" /\ csent[t][i + 1].action = "stop"
       /\ fdstate # <<>> /\ fdstate[Len(fdstate)] = "closed"
       /\ ~running /\ master_fd = NoFd /\ process = NoProc
       /\ status = "Ready" /\ cpc[t] = "recv"

\* C14: a result with token 101 replaces the stack with the payload's
\* stack list and a result with token 102 replaces the variables with the
\* payload's locals list; each emits a snapshot of the new state and
\* neither changes status or location.
C14_TokenResultsReplace ==
    [][ /\ (Entering /\ hev'.type = "result" /\ "token" \in DOMAIN hev'
              /\ hev'.token = 101) =>
              /\ stack' = IF "stack" \in DOMAIN hev'.payload
                           THEN hev'.payload.stack ELSE <<>>
              /\ UNCHANGED <<status, location, variables>>
              /\ Delivered(Snapshot(status, location, stack', variables))
        /\ (Entering /\ hev'.type = "result" /\ "token" \in DOMAIN hev'
              /\ hev'.token = 102) =>
              /\ variables' = IF "locals" \in DOMAIN hev'.payload
                               THEN hev'.payload.locals ELSE <<>>
              /\ UNCHANGED <<status, location, stack>>
              /\ Delivered(Snapshot(status, location, stack, variables'))
      ]_vars

\* both results were handled in a paused session with a transport attached
C14_Witness ==
    /\ hpc = "idle" /\ hev = EvLocals
    /\ status = "Paused" /\ location # NoLoc
    /\ stack = StackA /\ variables = LocalsA
    /\ websocket # NoWs
    /\ sent[websocket][Len(sent[websocket])].msg
          = Snapshot("Paused", location, StackA, LocalsA)

\* a result whose payload has an error message field and none of the
\* breakpoint / name / children fields
PlainErrorResult(e) ==
    /\ e.type = "result"
    /\ "msg" \in DOMAIN e.payload
    /\ DOMAIN e.payload \cap {"bkpt", "name", "children"} = {}

\* the handler's error path for event e, step by step: the check is
\* reached with status untouched, one error-level entry quoting the text
\* is appended, then one error message carrying the text is emitted
ErrorPath(is_case(_)) ==
    /\ (Entering /\ is_case(hev')) =>
          /\ hpc' = "errchk"
          /\ UNCHANGED <<status, log_history>>
          /\ \A t \in Transports :
                \A i \in Len(sent[t]) + 1 .. Len(sent'[t]) :
                   sent'[t][i].msg.type # "error"
    /\ (is_case(hev) /\ hpc = "errchk" /\ hpc' # "errchk") =>
          /\ hpc' = "errsend"
          /\ Logged("error", log_history'[Len(log_history')].payload.text)
          /\ LET text == log_history'[Len(log_history')].payload.text
             IN  text[Len(text)] = hev.payload.msg
          /\ UNCHANGED status
    /\ (is_case(hev) /\ hpc = "errsend" /\ hpc' # "errsend") =>
          /\ hpc' = "idle"
          /\ Delivered([type |-> "error", payload |-> hev.payload.msg])
          /\ UNCHANGED <<status, log_history>>

\* C15: any result whose payload carries an error message field and none
\* of the breakpoint/name/children fields appends exactly one error-level
\* log entry and emits exactly one error message carrying that text, and
\* leaves status unchanged, whatever its token.
C15_ErrorResultReported ==
    [][ ErrorPath(PlainErrorResult) ]_vars

\* an error result bearing the var-create token was reported to the
\* attached transport of a paused session
C15_Witness ==
    /\ hpc = "idle" /\ hev = EvVarError /\ status = "Paused"
    /\ websocket # NoWs /\ Len(sent[websocket]) >= 3
    /\ LET q == sent[websocket]
       IN  /\ q[Len(q)].msg = [type |-> "error", payload |-> EvVarError.payload.msg]
           /\ q[Len(q) - 1].msg.type = "log_event"
           /\ q[Len(q) - 1].msg.payload.level = "error"
           /\ q[Len(q) - 2].msg.type = "var_created"

NotifyError(e) == e.type = "notify" /\ e.message = "error"

\* C16: a notify event with message "error" takes the same error-handling
\* path as an error result: an error-level log entry is appended and an
\* error message is emitted to the transport, with status unchanged.
C16_NotifyErrorReported ==
    [][ ErrorPath(NotifyError) ]_vars

\* actions with a command of their own kind
SingleCommandActions ==
    {"run", "next", "step", "continue", "break", "remove_breakpoint",
     "var_create", "var_list_children", "read_memory"}

\* the translation table, spelled out for the messages clients send
ExpectedCmd(m) ==
    CASE m = Msg("run", NoArgs) -> "-exec-run"
      [] m = Msg("run", [stop_at_entry |-> TRUE]) -> "-exec-run --start"
      [] m = Msg("run", [stop_at_entry |-> FALSE]) -> "-exec-run"
      [] m = Msg("next", NoArgs) -> "-exec-next"
      [] m = Msg("step", NoArgs) -> "-exec-step"
      [] m = Msg("continue", NoArgs) -> "-exec-continue"
      [] m = Msg("break", [location |-> "main"]) -> "201-break-insert main"
      [] m = Msg("break", NoArgs) -> "201-break-insert None"
      [] m = Msg("remove_breakpoint", [id |-> "1"]) -> "-break-delete 1"
      [] m = Msg("var_create", [expression |-> "x"]) ->
            "301-var-create - * x"
      [] m = Msg("var_create", [expression |-> "y"]) ->
            "301-var-create - * y"
      [] m = Msg("var_list_children", [name |-> "var1"]) ->
            "302-var-list-children --all-values var1"
      [] m = Msg("read_memory", [address |-> "0x10", count |-> 16]) ->
            "401-data-read-memory-bytes 0x10 16"
      [] m = Msg("read_memory", [address |-> "0x10"]) ->
            "401-data-read-memory-bytes 0x10 256"
      [] OTHER -> m.action

\* the commands written in this step, in order
NewCmds ==
    [i \in 1 .. Len(wlog') - Len(wlog) |-> wlog'[Len(wlog) + i].cmd]

\* C17: the command written for each client action is the fixed one for
\* its kind with the kind's reserved token; each single-command action
\* writes exactly one command, get_context writes exactly the token-101
\* command and then the token-102 command, and no action other than init
\* and stop changes status, location, stack or variables.
C17_CommandTranslation ==
    [][ \A t \in Transports :
          Handling(t) =>
             /\ Taken(t).action \in SingleCommandActions =>
                    NewCmds = <<ExpectedCmd(Taken(t))>>
             /\ Taken(t).action = "get_context" =>
                    NewCmds = <<"101-stack-list-frames",
                                "102-stack-list-locals --simple-values">>
             /\ Taken(t).action \notin {"init", "stop"} =>
                    UNCHANGED <<status, location, stack, variables>>
      ]_vars

\* C18: an action that is not one of the known actions is forwarded
\* verbatim: exactly one write of the action string is made on the
\* channel, and status, location, stack and variables are unchanged.
C18_UnknownPassthrough ==
    [][ \A t \in Transports :
          (Handling(t)
             /\ Taken(t).action \notin SingleCommandActions
                                       \cup {"init", "stop", "get_context"}) =>
             /\ NewCmds = <<Taken(t).action>>
             /\ wlog'[Len(wlog')].by = t
             /\ UNCHANGED <<status, location, stack, variables>>
      ]_vars

\* an unknown action reached the debugger of a paused session
C18_Witness ==
    /\ wlog # <<>> /\ wlog[Len(wlog)].cmd = "-gdb-version"
    /\ wlog[Len(wlog)].res = "ok" /\ wlog[Len(wlog)].by \in Transports
    /\ status = "Paused"

\* commands the handling of message m writes
RECURSIVE CmdsOfAll(_)
CmdsOfAll(ms) ==
    IF ms = <<>> THEN <<>>
    ELSE (CASE Head(ms).action \in {"init", "stop"} -> <<>>
            [] Head(ms).action = "get_context" ->
                  <<"101-stack-list-frames",
                    "102-stack-list-locals --simple-values">>
            [] OTHER -> <<ExpectedCmd(Head(ms))>>)
         \o CmdsOfAll(Tail(ms))

\* commands connection t's handler has written, in order
WrittenBy(t) ==
    LET mine == SelectSeq(wlog, LAMBDA w : w.by = t)
    IN  [i \in 1 .. Len(mine) |-> mine[i].cmd]

IsPrefix(a, b) == Len(a) <= Len(b) /\ a = SubSeq(b, 1, Len(a))

\* what connection t's handler has written is what the messages it has
\* taken, in the order the client sent them, call for (a prefix of it once
\* a write raised and ended the handler)
WrittenInOrder(t) ==
    LET due == CmdsOfAll(SubSeq(csent[t], 1, Handled(t)))
    IN  /\ IsPrefix(WrittenBy(t), due)
        /\ cpc[t] = "recv" => WrittenBy(t) = due

\* C19: the commands of one client are written to the channel in the
\* order the client sent them, and handling a command never waits for
\* its result event: the step that takes a command writes it and leaves
\* the read loop and its buffered lines alone.
C19_CommandsInOrder ==
    [][ /\ \A t \in Transports : WrittenInOrder(t)'
        /\ \A t \in Transports :
              (Handling(t) /\ Taken(t).action \notin {"init", "stop"}) =>
                 /\ UNCHANGED <<lpc, buffer, hpc, hev, hidx>>
                 /\ Len(wlog') > Len(wlog)
                 /\ cpc'[t] \in {"recv", "gone"}
      ]_vars

\* two commands were written one after the other, the client having sent
\* a further one in the meantime, and no line of the debugger has been
\* read yet
C19_Witness ==
    \E t \in Transports :
       /\ hidx = 0 /\ buffer = <<>> /\ lpc = "select"
       /\ WrittenBy(t) = <<"-exec-run", "-exec-continue">>
       /\ \A i \in 1 .. Len(wlog) : wlog[i].res = "ok"
       /\ Len(csent[t]) = 4 /\ inbox[t] # <<>>

\* steps of the read loop's handler that call send_json: the snapshot of
\* a notification or a token result, a log entry, an error message
SnapshotStep ==
    /\ Entering
    /\ \/ IsRunningEv(hev')
       \/ hev'.type = "notify" /\ hev'.message = "stopped"
       \/ hev'.type = "result" /\ "token" \in DOMAIN hev'
             /\ hev'.token \in {101, 102}

LogStep == hpc = "log" /\ hpc' # "log"

ErrorSendStep == hpc = "errsend" /\ hpc' # "errsend"

\* the attached transport's connection is gone: a send on it fails
SendWillFail == websocket # NoWs /\ ~open[websocket]

\* C20: a failed send to the attached transport clears the transport
\* reference and propagates no exception to the caller: the state
\* mutation or log append that triggered the send is kept, the handler
\* goes on, the read loop and channel keep running, and later broadcasts
\* are dropped silently until the next attach.
C20_SendFailureDetaches ==
    [][ /\ (SendWillFail /\ (SnapshotStep \/ LogStep \/ ErrorSendStep)) =>
              /\ websocket' = NoWs /\ sent' = sent
              /\ UNCHANGED <<running, master_fd, process, lpc>>
        /\ (SendWillFail /\ SnapshotStep) =>
              /\ hpc' \in {"log", "errchk"}
              /\ IsRunningEv(hev') => status' = "Running"
              /\ IsExit(hev') => status' = "Exited"
              /\ IsNonExitStop(hev') => status' = "Paused"
              /\ (hev'.type = "result" /\ hev'.token = 101
                    /\ "stack" \in DOMAIN hev'.payload) =>
                    stack' = hev'.payload.stack
        /\ (SendWillFail /\ LogStep) =>
              /\ hpc' \in {"fetch", "idle"}
              /\ log_history' # <<>>
              /\ log_history'[Len(log_history')].payload.timestamp
                    = clock + 1
        /\ (SendWillFail /\ ErrorSendStep) => hpc' = "idle"
        /\ \A t \in Transports :
              (SendWillFail /\ Stopping(t)) =>
                 /\ websocket' = NoWs /\ sent' = sent
                 /\ status' = "Ready" /\ cpc'[t] = "recv"
        /\ (websocket = NoWs
              /\ (SnapshotStep \/ LogStep \/ ErrorSendStep)) =>
              /\ websocket' = NoWs /\ sent' = sent
        /\ (websocket = NoWs /\ websocket' # NoWs) =>
              /\ cpc[websocket'] \in {"closing", "attach"}
              /\ cpc'[websocket'] = "slice"
      ]_vars

\* the only connection went away unnoticed by its handler; a "running"
\* notification was then handled, its snapshot failed to send, and the
\* state change, the log entry and the read loop are all in place
C20_Witness ==
    \E t \in Transports :
       /\ cpc[t] = "recv" /\ ~open[t] /\ websocket = NoWs
       /\ \A u \in Transports \ {t} : cpc[u] = "new"
       /\ hpc = "idle" /\ hev = EvRunning /\ status = "Running"
       /\ log_history # <<>>
       /\ log_history[Len(log_history)].payload.text = <<"[Running]">>
       /\ running /\ lpc # "done"
       /\ \A i \in 1 .. Len(sent[t]) :
             sent[t][i].msg.type = "state_update" =>
                sent[t][i].msg.payload.status # "Running"

\* C21: for any interleaving of connections naming the identifier, several
\* first connections at once included, get_or_create yields one and the
\* same session: at most one session object (hence one channel and one
\* read loop) is ever constructed for it while it is in the registry.
C21_OneSessionPerIdentifier ==
    /\ created <= 1
    /\ DOMAIN sessions \subseteq {SessionId}
    /\ \A id \in DOMAIN sessions : sessions[id] = 1
    /\ (\E t \in Transports : cpc[t] # "new")
          <=> (SessionId \in DOMAIN sessions /\ created = 1)

\* a second connection resolved the identifier while the first one was
\* still inside attach()
C21_Witness ==
    /\ cpc[1] \in {"slice", "replay"} /\ cpc[2] \notin {"new", "gone"}
    /\ created = 1 /\ sessions[SessionId] = 1

\* a result event bearing token k
IsResult(e, k) == e.type = "result" /\ "token" \in DOMAIN e /\ e.token = k

\* t is attached, connected, and the only connection there has been: it
\* has been attached since before the debugger was started
SoleTransport(t) ==
    /\ websocket = t /\ open[t]
    /\ \A u \in Transports \ {t} : cpc[u] = "new"

\* C22: with a transport attached and the channel open, a non-exit
\* "stopped" notification followed by the results for tokens 101 and 102
\* gives the transport a state_update with status Paused and the stop
\* location and, after it, one state_update carrying the returned stack
\* and one carrying the returned variables; the Paused snapshot is sent
\* before the handler writes its two auto-fetch commands.
C22_PausedThenContext ==
    [][ /\ (Entering /\ IsNonExitStop(hev')) =>
              /\ "frame" \in DOMAIN hev'.payload =>
                    Delivered(Snapshot("Paused", FrameLoc(hev'.payload.frame),
                                       stack, variables))
              /\ Delivered(Snapshot("Paused", location', stack, variables))
              /\ wlog' = wlog
        /\ (IsNonExitStop(hev) /\ hpc = "log" /\ hpc' # "log") =>
              wlog' = wlog
        /\ \A t \in Transports :
              (Entering /\ IsResult(hev', 102) /\ IsResult(hev, 101)
                 /\ IsNonExitStop(hprev) /\ SoleTransport(t)) =>
                 /\ \E i, j \in 1 .. Len(sent[t]) :
                       /\ i < j
                       /\ sent[t][i].msg.type = "state_update"
                       /\ sent[t][i].msg.payload.status = "Paused"
                       /\ "frame" \in DOMAIN hprev.payload =>
                             sent[t][i].msg.payload.location
                                = FrameLoc(hprev.payload.frame)
                       /\ sent[t][j].msg.type = "state_update"
                       /\ sent[t][j].msg.payload.stack
                             = Get(hev.payload, "stack", <<>>)
                 /\ Len(sent'[t]) = Len(sent[t]) + 1
                 /\ sent'[t][Len(sent'[t])].msg.type = "state_update"
                 /\ sent'[t][Len(sent'[t])].msg.payload.variables
                       = Get(hev'.payload, "locals", <<>>)
      ]_vars

\* the debugger stopped at a breakpoint, both auto-fetch commands reached
\* it, and the three snapshots went to the attached transport in order
C22_Witness ==
    /\ hpc = "idle" /\ hev = EvLocals /\ hprev = EvStack /\ websocket = 1
    /\ HandlerCmds(wlog, hidx - 2) = <<CmdFrames, CmdLocals>>
    /\ \A i \in 1 .. Len(wlog) : wlog[i].res = "ok"
    /\ \E i \in 1 .. Len(sent[1]) :
          /\ i + 3 = Len(sent[1])
          /\ sent[1][i].msg
                = Snapshot("Paused", FrameLoc(FrameFull), <<>>, <<>>)
          /\ sent[1][i + 1].msg.type = "log_event"
          /\ sent[1][i + 2].msg
                = Snapshot("Paused", FrameLoc(FrameFull), StackA, <<>>)
          /\ sent[1][i + 3].msg
                = Snapshot("Paused", FrameLoc(FrameFull), StackA, LocalsA)

\* the var-create commands of the clients' messages
VarCreateCmds ==
    {"301-var-create - * " \o m.args.expression :
        m \in {x \in VarMessages : x.action = "var_create"}}

\* connection t wrote two var-create commands one right after the other,
\* both reaching the debugger, before any of its lines was dispatched
BackToBackVarCreates(t) ==
    \E i \in 1 .. Len(wlog) - 1 :
       \A k \in {i, i + 1} :
          /\ wlog[k].by = t /\ wlog[k].ev = 0 /\ wlog[k].res = "ok"
          /\ wlog[k].cmd \in VarCreateCmds

\* the var_created messages transport t has accepted
VarCreatedTo(t) ==
    {sent[t][i].msg : i \in {k \in 1 .. Len(sent[t]) :
                                 sent[t][k].msg.type = "var_created"}}

\* the var_created message for a token-301 result
VarCreatedMsg(e) ==
    [type |-> "var_created",
     payload |-> [name |-> Get(e.payload, "name", NoneVal),
                  numchild |-> Get(e.payload, "numchild", NoneVal),
                  value |-> Get(e.payload, "value", NoneVal),
                  type |-> Get(e.payload, "type", NoneVal)]]

\* C23 (as stated): when two var_create commands are issued back-to-back
\* before either result returns, both are written with token 301, the
\* engine does not fail, and afterwards only one var_created message's
\* fields are retrievable by the client.
C23_OnlyOneRetrievable ==
    \A t \in Transports :
       BackToBackVarCreates(t) =>
          /\ cpc[t] # "gone" \/ ~open[t]
          /\ Cardinality(VarCreatedTo(t)) <= 1

\* C23 (amended): both commands are written with token 301 and the engine
\* does not fail; every token-301 result dispatched is answered with a
\* var_created message carrying that result's own fields, so the client
\* receives one message per result, in the order the results arrive.
C23_EachResultAnswered ==
    [][ /\ \A t \in Transports :
              (Handling(t) /\ Taken(t).action = "var_create"
                 /\ master_fd # NoFd /\ fdstate[master_fd] = "live") =>
                 /\ NewCmds = <<"301-var-create - * "
                                   \o Taken(t).args.expression>>
                 /\ wlog'[Len(wlog')].res = "ok"
                 /\ cpc'[t] = "recv" /\ open'[t] = open[t]
                 /\ UNCHANGED <<status, location, stack, variables, sent,
                                lpc, hpc>>
        /\ (Entering /\ IsResult(hev', 301)) =>
              /\ Delivered(VarCreatedMsg(hev'))
              /\ UNCHANGED <<status, location, stack, variables>>
        /\ \A t \in Transports :
              (Entering /\ IsResult(hev', 301) /\ IsResult(hev, 301)
                 /\ SoleTransport(t)) =>
                 /\ \E i \in 1 .. Len(sent[t]) :
                       sent[t][i].msg = VarCreatedMsg(hev)
                 /\ sent'[t][Len(sent'[t])].msg = VarCreatedMsg(hev')
      ]_vars

\* both commands were written before any line was read, the debugger
\* answered each, and both answers are in the client's queue in order
C23_Witness ==
    /\ BackToBackVarCreates(1) /\ hpc = "idle" /\ hidx = 2
    /\ WrittenBy(1) = <<"301-var-create - * x", "301-var-create - * y">>
    /\ Len(sent[1]) >= 2
    /\ sent[1][Len(sent[1]) - 1].msg = VarCreatedMsg(EvVarCreated1)
    /\ sent[1][Len(sent[1])].msg = VarCreatedMsg(EvVarCreated2)
    /\ VarCreatedMsg(EvVarCreated1).payload.name = "var1"
    /\ VarCreatedMsg(EvVarCreated2).payload.name = "var2"

\* client t sent init, break at main and run, in this order, all three
\* were handled, every command reached the debugger, and the line handled
\* last is the first one dispatched after the run command was written
InitBreakRun(t) ==
    /\ Handled(t) >= 3
    /\ SubSeq(csent[t], 1, 3)
          = << Msg("init", [executable |-> "/bin/true"]),
               Msg("break", [location |-> "main"]),
               Msg("run", NoArgs) >>
    /\ \A i \in 1 .. Len(wlog) : wlog[i].res = "ok"
    /\ \E i \in 1 .. Len(wlog) :
          /\ wlog[i].by = t /\ wlog[i].cmd = "-exec-run"
          /\ wlog[i].ev = hidx - 1

\* C24: after a client sends init, break at main and run, and the debugger
\* stops at the breakpoint, the client receives a message whose type is
\* "stopped" and whose payload carries the stop reason: once the engine
\* has nothing left to do for the notification, the message is in the
\* client's queue.
C24_StoppedMessageDelivered ==
    \A t \in Transports :
       (SoleTransport(t) /\ InitBreakRun(t)
          /\ Quiescent /\ buffer = <<>> /\ lpc = "select"
          /\ IsNonExitStop(hev) /\ hev.payload.reason = "breakpoint-hit") =>
          \E i \in 1 .. Len(sent[t]) :
             /\ sent[t][i].msg.type = "stopped"
             /\ sent[t][i].msg.payload.reason = hev.payload.reason

\* the step in which an init command's start() raised
InitFailed(t) ==
    Handling(t) /\ Taken(t).action = "init" /\ ~InitSucceeded

\* the channel is open with a live debugger behind its terminal
ChannelLive == master_fd # NoFd /\ fdstate[master_fd] = "live"

\* the channel holds a terminal that no debugger was started behind
HoldsDeadTerminal ==
    master_fd # NoFd /\ fdstate[master_fd] \in {"nogdb", "closed"}

\* C25: after start fails (missing executable, or the subprocess cannot be
\* spawned) the channel holds no terminal descriptor, so a later write is
\* a silent no-op; a channel that was open with a live debugger before
\* the failed start is not replaced by a terminal with no debugger.
C25_FailedStartLeavesNoTerminal ==
    [][ \A t \in Transports :
          /\ (InitFailed(t) /\ ~ChannelLive) => master_fd' = NoFd
          /\ (InitFailed(t) /\ ChannelLive) =>
                (master_fd' = master_fd /\ ChannelLive')
          /\ ~HoldsDeadTerminal'
          /\ (Commanding(t) /\ ~ChannelLive) =>
                /\ cpc'[t] = "recv"
                /\ \A i \in Len(wlog) + 1 .. Len(wlog') :
                      wlog'[i].res = "noop"
      ]_vars

\* C26: at any time the channel is bound to at most one live debugger
\* process: after any sequence of init and stop actions (two successful
\* inits with no stop in between included) no debugger started for the
\* session is alive other than the one the channel writes to.
C26_OneLiveDebugger ==
    \A p \in procs : p = process /\ p = master_fd

\* the channel has been stopped and not started again
ChannelStopped == ~running /\ master_fd = NoFd /\ process = NoProc

\* C27: once the stop action's channel stop has completed, the read loop
\* dispatches no further event of the stopped channel: neither a line
\* already buffered nor a handler suspended in a send changes status,
\* location, stack or variables, which stay as they are until the next
\* client command.
C27_StopSilencesLoop ==
    [][ (ChannelStopped /\ \A t \in Transports : ~Handling(t)) =>
           /\ ~Entering
           /\ UNCHANGED <<status, location, stack, variables>>
      ]_vars

\* C28: whenever the channel has been started successfully, also after a
\* stop action or an end-of-stream on the previous debugger, a read loop
\* is active for the session (so that what the new debugger emits is
\* dispatched): a started channel never goes with a finished loop task.
C28_StartedChannelHasLoop ==
    [][ InitSucceeded => lpc' # "done" ]_vars

\* C29: a transport that attached (replacing another or not) stays the
\* attached transport until it disconnects or fails itself or is replaced
\* in turn: neither the detach run when the replaced connection's handler
\* ends nor a send failure on the replaced transport clears it.
C29_ReplacementStaysAttached ==
    [][ \A b \in Transports :
          (websocket = b /\ open[b] /\ websocket' # b) =>
             \/ websocket' \in Transports \ {b}
             \/ cpc'[b] = "gone"
             \/ ~open'[b]
      ]_vars

\* C30: a result is dispatched by its re-tagged message as well as by its
\* token: a result whose payload has a stack field replaces the stack and
\* emits a snapshot even without token 101, and one whose payload has a
\* locals field replaces the variables even without token 102.
C30_DispatchByShape ==
    [][ /\ (Entering /\ hev'.type = "result"
              /\ "stack" \in DOMAIN hev'.payload) =>
              /\ stack' = hev'.payload.stack
              /\ Delivered(Snapshot(status, location, stack', variables))
        /\ (Entering /\ hev'.type = "result"
              /\ "locals" \in DOMAIN hev'.payload) =>
              /\ variables' = hev'.payload.locals
              /\ Delivered(Snapshot(status, location, stack, variables'))
      ]_vars

\* C33: in every reachable state in which status is Running or Exited,
\* location is empty and stack and variables are empty lists, however
\* notifications, token-101/102 results and client commands interleave.
C33_RunningExitedHoldNoContext ==
    status \in {"Running", "Exited"} =>
       /\ location = NoLoc /\ stack = <<>> /\ variables = <<>>

\* the message types that report a command's success
SuccessTypes ==
    {"breakpoint_created", "var_created", "var_children", "memory_read"}

\* C34: a result whose payload carries an error message and none of the
\* breakpoint/name/children fields never produces a success-typed message
\* and never changes stack or variables, whatever token it bears: its
\* only effects are the error log entry and the error message.
C34_ErrorResultOnlyReportsError ==
    [][ (Entering /\ PlainErrorResult(hev')) =>
           /\ UNCHANGED <<stack, variables>>
           /\ \A t \in Transports :
                 \A i \in Len(sent[t]) + 1 .. Len(sent'[t]) :
                    sent'[t][i].msg.type \notin SuccessTypes
      ]_vars

\* the tokens the session's result branches know
KnownTokens == {101, 102, 201, 301, 302, 401}

\* an event of a shape no branch of the handler is written for
Unrecognized(e) ==
    \/ /\ e.type = "result"
       /\ Get(e, "token", NoToken) \notin KnownTokens
       /\ \/ e.payload = NoPayload
          \/ "msg" \notin DOMAIN e.payload
    \/ /\ e.type = "notify"
       /\ e.message \notin {"running", "stopped"}

\* C31: an event of an unrecognized shape (a result with an unknown or no
\* token and no error message field, a result without any payload, a
\* notification other than running/stopped) is ignored without error:
\* no step of its handling changes the session state, emits a message or
\* appends a log entry, and none raises an error inside the read loop.
C31_UnrecognizedIgnored ==
    [][ (Unrecognized(hev') /\ (Entering \/ hpc = "errchk")) =>
           /\ UNCHANGED <<session, log_history, sent>>
           /\ lpc' # "caught"
      ]_vars

\* C32: every complete line read into the buffer is parsed and, if it
\* yields an event, dispatched in order without further output from the
\* debugger: whenever the loop waits for more output, no complete line is
\* left in the buffer.
C32_BufferDrainedBeforeWaiting ==
    lpc = "select" => buffer = <<>>

\* the lines from which the parser is to make an event
YieldsEvent(l) ==
    /\ l # LineGarbled
    /\ l.type \in {"console", "notify", "result"}
    /\ ~(l.type = "console" /\ l.payload = <<>>)

\* C35: the parser makes no event from an output record, a log record, a
\* line that fails to parse or a console record with empty text; only
\* console, notify and result records yield an event passed to the
\* session handler.
C35_OnlyThreeRecordTypesYieldEvents ==
    [][ (lpc = "dispatch" /\ buffer # <<>> /\ buffer' = Tail(buffer)) =>
           (Entering <=> YieldsEvent(Head(buffer)))
      ]_vars

====
